---- MODULE Spec2Model ----
(***************************************************************************)
(* A state-machine model of the nebulus-edge intelligence service: the     *)
(* SQL safety gate and query engine, the /query and /data HTTP handlers,   *)
(* the audit log with its signed export, the feedback store, the knowledge *)
(* store with its overlay file, and the scoring engine.                    *)
(*                                                                         *)
(* Text is modelled as a sequence of one-character strings, so that the    *)
(* validators, which work on characters, are computed as the code computes *)
(* them.                                                                   *)
(***************************************************************************)
EXTENDS Integers, Sequences, FiniteSets, TLC

VARIABLES
    sql_in,      \* the SQL text a caller submits
    tables,      \* main.db: the set of table names of the relational store
    last_exec,   \* the statement the last engine call handed to sqlite, or NoExec
    outcome,     \* what the last SQLEngine.execute call returned or raised
    resp,        \* the last HTTP response, with the request it answers
    req_id,      \* number of HTTP requests served so far
    audit_enabled, \* app.state.audit_config.enabled
    collections, \* the vector store: the table names that have a collection
    audit_log,   \* audit.db, table audit_log: a set of rows
    next_id,     \* the next AUTOINCREMENT id of audit_log
    clock,       \* the wall clock, in ticks
    feedback,    \* feedback.db, table feedback: a set of rows
    fb_next,     \* the next AUTOINCREMENT id of feedback
    q_result,    \* a get_events call: its arguments and, once made, the rows returned
    csv_file,    \* <name>.csv of the audit export
    sig_file,    \* <name>.csv.sig
    meta_file,   \* <name>.csv.meta.json
    exported,    \* the three files as export_csv wrote them
    verify,      \* the last verify_export result
    km,          \* KnowledgeManager.knowledge.scoring_factors of the live manager
    overlay,     \* knowledge.json, the overlay file
    updated,     \* the weight of the last successful update of each factor
    scored,      \* the last ScoredRecord of SaleScorer.score_record
    naming,      \* the last call of a table-name function: its argument and result
    store,       \* main.db in detail: table name -> columns and row count
    ingest,      \* the last call on the data store: its arguments and result
    answer,      \* the last IntelligenceOrchestrator.ask: what failed, what came back
    applied,     \* the last apply_weight_adjustments: proposals, floor, result map
    report,      \* the last RefinementReport of analyze_and_suggest, with its arguments
    classified,  \* the last QuestionClassifier.classify: question, Brain's reply, result
    requests,    \* the knowledge-update requests in flight: position, manager, answer
    replace,     \* an ingest_csv under way, and what the last query saw of its table
    vectors,     \* one vector collection: its entries, the batch embedded, the process
    aging,       \* a table with days_on_lot and the insights found for it
    purged       \* the last purge_old_logs: arguments, the log before, the count returned

vars == <<sql_in, tables, last_exec, outcome, resp, req_id, audit_enabled,
          collections, audit_log, next_id, clock, feedback, fb_next, q_result, csv_file, sig_file, meta_file, exported,
          verify, km, overlay, updated, scored, naming, store, ingest, answer,
          applied, report, classified, requests,
          replace, vectors, aging, purged>>

sqlVars == <<sql_in, tables, last_exec, outcome>>
apiVars == <<resp, req_id, audit_enabled, collections>>
auditVars == <<audit_log, next_id, clock>>
feedbackVars == <<feedback, fb_next>>
queryVars == <<q_result>>
exportVars == <<csv_file, sig_file, meta_file, exported, verify>>
knowledgeVars == <<km, overlay, updated>>
scoreVars == <<scored>>
nameVars == <<naming>>
storeVars == <<store, ingest>>
askVars == <<answer>>
refineVars == <<applied>>
laterVars == <<report, classified, requests, replace, vectors, aging, purged>>

None == "None"

\* no statement reached sqlite
NoExec == [ran |-> FALSE, sql |-> <<>>, safe |-> FALSE]

\* no engine call has been made
NoOutcome == [sql |-> <<>>, safe |-> FALSE, error |-> "idle", message |-> <<>>,
              rows |-> FALSE]

\* no request has been answered
NoResp == [endpoint |-> "none", sql |-> <<>>, arg |-> "", status |-> 0,
           detail |-> <<>>, rows |-> FALSE, audit_failed |-> FALSE]

\* a time bound that is not given (start_time=None, end_time=None)
NoTime == [given |-> FALSE, at |-> [wall |-> 0, aware |-> FALSE, off |-> 0]]

\* the default limit of get_events
DefaultLimit == 100

\* get_events has not been called; a caller will call it without time bounds
NoQuery == [valid |-> FALSE, start |-> NoTime, end |-> NoTime,
            limit |-> DefaultLimit, rows |-> {}]

\* files that do not exist
NoCsv == [exists |-> FALSE, lines |-> <<>>]
NoSig == [exists |-> FALSE, key |-> "", msg |-> <<>>, pad |-> FALSE]
NoMeta == [exists |-> FALSE, csv_hash |-> [alg |-> "", of |-> <<>>],
           record_count |-> 0]

\* nothing has been exported
NoExport == [done |-> FALSE, csv |-> NoCsv, sig |-> NoSig, meta |-> NoMeta]

\* verify_export has not been called
NoVerify == [error |-> "idle", hash_valid |-> FALSE, signature_valid |-> FALSE,
             tampered |-> FALSE, record_count |-> 0]

\* knowledge.json does not exist
NoOverlay == [exists |-> FALSE, factors |-> <<>>]

\* no record has been scored
NoScore == [valid |-> FALSE, raised |-> FALSE, record |-> <<>>,
            total_score |-> 0,
            max_possible |-> 0, percentage |-> [num |-> 0, den |-> 1],
            passed |-> {}, factors |-> {}]

-----------------------------------------------------------------------------
(* Bounds of the model *)

\* the longest statement, in tokens, given to SQLEngine.execute
MaxTok == 3

\* HTTP requests served in one behaviour
MaxReq == 2

\* the latest wall-clock reading, in ticks
MaxWall == 2

\* audit events written in one behaviour
MaxEvents == 2

\* feedback rows written in one behaviour
MaxFeedback == 1

\* the longest CSV, in lines after the header
MaxLines == 3

-----------------------------------------------------------------------------
(* Text *)

LowerLetters == {"s", "e", "l", "c", "t", "f", "r", "o", "m"}
UpperLetters == {"S", "E", "L", "C", "T", "F", "R", "O", "M", "D", "P", "A", "B",
                 "I", "N", "U", "H", "K"}

\* str.upper() of one character
UpperChar(c) ==
    CASE c = "s" -> "S" [] c = "e" -> "E" [] c = "l" -> "L" [] c = "c" -> "C"
      [] c = "t" -> "T" [] c = "f" -> "F" [] c = "r" -> "R" [] c = "o" -> "O"
      [] c = "m" -> "M" [] OTHER -> c

\* str.upper()
Upper(s) == [i \in 1..Len(s) |-> UpperChar(s[i])]

\* the characters the regular-expression class \w matches
IsWordChar(c) == c \in LowerLetters \cup UpperLetters \cup {"_"}

IsSpace(c) == c = " "

RECURSIVE LStrip(_)
LStrip(s) == IF s # <<>> /\ IsSpace(Head(s)) THEN LStrip(Tail(s)) ELSE s

RECURSIVE RStrip(_)
RStrip(s) ==
    IF s # <<>> /\ IsSpace(s[Len(s)]) THEN RStrip(SubSeq(s, 1, Len(s) - 1)) ELSE s

\* str.strip()
Strip(s) == LStrip(RStrip(s))

\* str.rstrip(";")
RECURSIVE RStripSemi(_)
RStripSemi(s) ==
    IF s # <<>> /\ s[Len(s)] = ";" THEN RStripSemi(SubSeq(s, 1, Len(s) - 1)) ELSE s

\* str.startswith(p)
StartsWith(s, p) == Len(s) >= Len(p) /\ SubSeq(s, 1, Len(p)) = p

\* the positions at which p occurs in s
Occurrences(s, p) ==
    {i \in 1..(Len(s) - Len(p) + 1) : SubSeq(s, i, i + Len(p) - 1) = p}

\* p in s
Contains(s, p) == Occurrences(s, p) # {}

\* re.search(rf"\b{kw}\b", s) for a keyword made of word characters
RegexWord(kw, s) ==
    \E i \in Occurrences(s, kw) :
        /\ i = 1 \/ ~IsWordChar(s[i - 1])
        /\ i + Len(kw) > Len(s) \/ ~IsWordChar(s[i + Len(kw)])

RECURSIVE Flatten(_)
Flatten(ss) == IF ss = <<>> THEN <<>> ELSE Head(ss) \o Flatten(Tail(ss))

-----------------------------------------------------------------------------
(* intelligence/core/security.py *)

MAX_SQL_LENGTH == 10000

Ok == "ok"

\* the words of the only-SELECT rejection
MsgOnlySelect == <<"Only", "SELECT", "statements", "are", "allowed">>
MsgEmpty == <<"SQL", "query", "cannot", "be", "empty">>
MsgTooLong == <<"SQL", "query", "too", "long">>
MsgComments == <<"SQL", "comments", "are", "not", "allowed">>
MsgMultiple == <<"Multiple", "SQL", "statements", "are", "not", "allowed">>
MsgForbidden(kw) == <<"Query", "contains", "forbidden", "keyword:", kw>>

KwSelect == <<"S", "E", "L", "E", "C", "T">>

\* dangerous_keywords, in the order the loop tries them
DangerousKeywords ==
    << <<"D", "R", "O", "P">>,
       <<"D", "E", "L", "E", "T", "E">>,
       <<"I", "N", "S", "E", "R", "T">>,
       <<"U", "P", "D", "A", "T", "E">>,
       <<"A", "L", "T", "E", "R">>,
       <<"C", "R", "E", "A", "T", "E">>,
       <<"T", "R", "U", "N", "C", "A", "T", "E">>,
       <<"R", "E", "P", "L", "A", "C", "E">>,
       <<"A", "T", "T", "A", "C", "H">>,
       <<"D", "E", "T", "A", "C", "H">> >>

\* the same keywords as they are printed in the error
DangerousNames ==
    <<"DROP", "DELETE", "INSERT", "UPDATE", "ALTER", "CREATE", "TRUNCATE",
      "REPLACE", "ATTACH", "DETACH">>

\* the keywords of the list that re.search finds in s
KeywordHits(s) ==
    {k \in 1..Len(DangerousKeywords) : RegexWord(DangerousKeywords[k], s)}

Min(S) == CHOOSE x \in S : \A y \in S : x <= y

\* a validator that forgets the comment check
ValidateSqlQuery_NoCommentCheck(sql, allow_write) ==
    LET sql_upper == Strip(Upper(sql)) IN
    IF sql = <<>> THEN MsgEmpty
    ELSE IF Len(sql) > MAX_SQL_LENGTH THEN MsgTooLong
    ELSE IF ~allow_write /\ ~StartsWith(sql_upper, KwSelect) THEN MsgOnlySelect
    ELSE IF ~allow_write /\ KeywordHits(sql_upper) # {}
        THEN MsgForbidden(DangerousNames[Min(KeywordHits(sql_upper))])
    ELSE IF Contains(RStripSemi(sql), <<";">>) THEN MsgMultiple
    ELSE Ok

\* validate_sql_query: Ok, or the words of the ValidationError it raises
ValidateSqlQuery(sql, allow_write) ==
    LET sql_upper == Strip(Upper(sql)) IN
    IF sql = <<>> THEN MsgEmpty
    ELSE IF Len(sql) > MAX_SQL_LENGTH THEN MsgTooLong
    ELSE IF ~allow_write /\ ~StartsWith(sql_upper, KwSelect) THEN MsgOnlySelect
    ELSE IF ~allow_write /\ KeywordHits(sql_upper) # {}
        THEN MsgForbidden(DangerousNames[Min(KeywordHits(sql_upper))])
    ELSE IF Contains(sql, <<"-", "-">>) \/ Contains(sql, <<"/", "*">>)
        THEN MsgComments
    ELSE IF Contains(RStripSemi(sql), <<";">>) THEN MsgMultiple
    ELSE Ok

-----------------------------------------------------------------------------
(* sqlite, as intelligence/core/sql_engine.py drives it *)

PhraseSelect == <<"S", "E", "L", "E", "C", "T", " ", "*", " ", "F", "R", "O", "M">>
PhraseSelectLower == <<"s", "e", "l", "e", "c", "t", " ", "*", " ", "f", "r", "o", "m">>
PhraseDrop == <<"D", "R", "O", "P", " ", "T", "A", "B", "L", "E">>

\* the table of the store
TableT == <<"t">>

\* the pieces statements are made of
Tokens == {PhraseSelect, PhraseSelectLower, PhraseDrop, TableT,
           <<" ">>, <<";">>, <<"-">>, <<"/", "*">>}

RECURSIVE TokenSeqs(_)
TokenSeqs(n) ==
    IF n = 0 THEN {<<>>}
    ELSE LET shorter == TokenSeqs(n - 1) IN
         shorter \cup {Append(ts, t) : ts \in {x \in shorter : Len(x) = n - 1}, t \in Tokens}

\* every statement of at most MaxTok tokens
SqlTexts == {Flatten(ts) : ts \in TokenSeqs(MaxTok)}

\* where a comment starts in s, or Len(s) + 1
CommentStart(s) ==
    LET starts == Occurrences(s, <<"-", "-">>) \cup Occurrences(s, <<"/", "*">>)
    IN IF starts = {} THEN Len(s) + 1 ELSE Min(starts)

RECURSIVE RStripSemiSpace(_)
RStripSemiSpace(s) ==
    IF s # <<>> /\ s[Len(s)] \in {";", " "}
    THEN RStripSemiSpace(SubSeq(s, 1, Len(s) - 1)) ELSE s

\* the one statement sqlite compiles: comments, trailing blanks and trailing
\* semicolons are no part of it
SqliteCore(sql) == LStrip(RStripSemiSpace(SubSeq(sql, 1, CommentStart(sql) - 1)))

\* sqlite3.Connection.execute(sql) on a store holding the tables tbls:
\* the error it raises (or None), the tables afterwards, whether rows came back
SqliteRun(sql, tbls) ==
    LET core == Upper(SqliteCore(sql))
        reads == {n \in tbls : core = PhraseSelect \o <<" ">> \o Upper(n)}
        drops == {n \in tbls : core = PhraseDrop \o <<" ">> \o Upper(n)}
    IN IF Contains(core, <<";">>)
          THEN [error |-> "ProgrammingError", tables |-> tbls, rows |-> FALSE]
       ELSE IF reads # {}
          THEN [error |-> None, tables |-> tbls, rows |-> TRUE]
       ELSE IF drops # {}
          THEN [error |-> None, tables |-> tbls \ drops, rows |-> FALSE]
       ELSE [error |-> "OperationalError", tables |-> tbls, rows |-> FALSE]

-----------------------------------------------------------------------------
(* intelligence/core/sql_engine.py *)

\* an engine that runs the statement before it validates it
EngineExecute_ValidateAfter(sql, safe, tbls) ==
    LET s == Strip(sql)
        v == IF safe THEN ValidateSqlQuery(s, FALSE) ELSE Ok
        r == SqliteRun(s, tbls)
    IN [error |-> IF v # Ok THEN "UnsafeQueryError" ELSE r.error,
        message |-> IF v # Ok THEN v ELSE <<>>,
        exec |-> [ran |-> TRUE, sql |-> s, safe |-> safe],
        tables |-> r.tables,
        rows |-> r.rows /\ v = Ok]

\* SQLEngine.execute: what it raises or returns, the statement it handed to
\* sqlite (or NoExec) and the tables afterwards
EngineExecute(sql, safe, tbls) ==
    LET s == Strip(sql)
        v == IF safe THEN ValidateSqlQuery(s, FALSE) ELSE Ok
        r == SqliteRun(s, tbls)
    IN IF v # Ok
       THEN [error |-> "UnsafeQueryError", message |-> v, exec |-> NoExec,
             tables |-> tbls, rows |-> FALSE]
       ELSE [error |-> r.error, message |-> <<>>,
             exec |-> [ran |-> TRUE, sql |-> s, safe |-> safe],
             tables |-> r.tables, rows |-> r.rows]

\* a caller runs sql_in through SQLEngine.execute
Execute(safe) ==
    LET r == EngineExecute(sql_in, safe, tables) IN
    /\ outcome' = [sql |-> sql_in, safe |-> safe, error |-> r.error,
                   message |-> r.message, rows |-> r.rows]
    /\ last_exec' = r.exec
    /\ tables' = r.tables
    /\ UNCHANGED sql_in

\* SaleScorer.score_query(sql) on sql_in: the text goes to sqlite as it is
ScoreQuery ==
    LET r == SqliteRun(sql_in, tables) IN
    /\ outcome' = [sql |-> sql_in, safe |-> FALSE, error |-> r.error,
                   message |-> <<>>, rows |-> r.rows]
    /\ last_exec' = [ran |-> TRUE, sql |-> sql_in, safe |-> FALSE]
    /\ tables' = r.tables
    /\ UNCHANGED sql_in

\* DataIngestor.ingest_csv puts the table (back) into the store
Reingest ==
    /\ tables' = tables \cup {TableT}
    /\ last_exec' = NoExec
    /\ outcome' = NoOutcome
    /\ UNCHANGED sql_in

-----------------------------------------------------------------------------
(* datetime values and their ISO text *)

\* the resolution of the clock: ticks in a day
TicksPerDay == 2

\* a datetime: the wall-clock reading in ticks, whether the value carries a
\* UTC offset, and that offset in ticks
Walls == 0..MaxWall
Timestamps ==
    {[wall |-> w, aware |-> FALSE, off |-> 0] : w \in Walls}
    \cup {[wall |-> w, aware |-> TRUE, off |-> o] : w \in Walls, o \in {0, 1}}

Digit(n) ==
    CASE n = 0 -> "0" [] n = 1 -> "1" [] n = 2 -> "2" [] n = 3 -> "3" [] n = 4 -> "4"
      [] n = 5 -> "5" [] n = 6 -> "6" [] n = 7 -> "7" [] n = 8 -> "8" [] n = 9 -> "9"

\* datetime.isoformat(): the wall clock at fixed width, then the offset of an
\* aware value; a naive value has no offset part
IsoFormat(dt) ==
    <<Digit(dt.wall \div 10), Digit(dt.wall % 10)>>
    \o (IF dt.aware THEN <<"+", Digit(dt.off)>> ELSE <<>>)

\* datetime.fromisoformat()
FromIso(text) == CHOOSE dt \in Timestamps : IsoFormat(dt) = text

\* the byte value of a character of an ISO text
CharCode(c) ==
    CASE c = "+" -> 43 [] c = "0" -> 48 [] c = "1" -> 49 [] c = "2" -> 50
      [] c = "3" -> 51 [] c = "4" -> 52 [] c = "5" -> 53 [] c = "6" -> 54
      [] c = "7" -> 55 [] c = "8" -> 56 [] c = "9" -> 57

\* a <= b as sqlite compares TEXT values: byte by byte, a proper prefix first
RECURSIVE TextLeq(_, _)
TextLeq(a, b) ==
    IF a = <<>> THEN TRUE
    ELSE IF b = <<>> THEN FALSE
    ELSE IF CharCode(Head(a)) # CharCode(Head(b))
        THEN CharCode(Head(a)) < CharCode(Head(b))
    ELSE TextLeq(Tail(a), Tail(b))

TextLt(a, b) == TextLeq(a, b) /\ a # b

\* datetime.now(tz=timezone.utc)
NowUtc == [wall |-> clock, aware |-> TRUE, off |-> 0]

\* datetime.now() on a server whose local time is UTC
NowLocal == [wall |-> clock, aware |-> FALSE, off |-> 0]

\* time passes
Tick ==
    /\ clock < MaxWall
    /\ clock' = clock + 1
    /\ UNCHANGED <<audit_log, next_id, q_result, feedbackVars>>

-----------------------------------------------------------------------------
(* intelligence/core/audit.py *)

\* the row AuditEvent.to_dict and the INSERT of log() store for an event
AuditRow(id, event) ==
    [id |-> id,
     event_type |-> event.event_type,
     timestamp |-> IsoFormat(event.timestamp),
     resource |-> event.resource,
     action |-> event.action,
     success |-> event.success]

\* the INSERT of AuditLogger.log
LogInsert(log, id, event) == log \cup {AuditRow(id, event)}

\* an event a caller builds
SomeEvent(ts) ==
    [event_type |-> "query_sql", timestamp |-> ts, resource |-> "query",
     action |-> "execute_sql", success |-> TRUE]

\* AuditLogger.log(event)
Log(event) ==
    /\ next_id <= MaxEvents
    /\ audit_log' = LogInsert(audit_log, next_id, event)
    /\ next_id' = next_id + 1
    /\ q_result' = [q_result EXCEPT !.valid = FALSE, !.rows = {}]
    /\ UNCHANGED <<clock, feedbackVars>>

\* the WHERE clause of get_events for the given time bounds
Matching(log, start, end) ==
    {r \in log :
        /\ start.given => TextLeq(IsoFormat(start.at), r.timestamp)
        /\ end.given => TextLeq(r.timestamp, IsoFormat(end.at))}

\* ORDER BY timestamp DESC LIMIT limit: the selections sqlite may return
Newest(rows, limit) ==
    {S \in SUBSET rows :
        /\ Cardinality(S) = IF Cardinality(rows) < limit THEN Cardinality(rows) ELSE limit
        /\ \A r \in S : \A o \in rows \ S : TextLeq(o.timestamp, r.timestamp)}

\* AuditLogger.get_events(start_time, end_time, limit) with the caller's
\* arguments
GetEvents ==
    /\ \E S \in Newest(Matching(audit_log, q_result.start, q_result.end),
                        q_result.limit) :
          q_result' = [q_result EXCEPT !.valid = TRUE, !.rows = S]
    /\ UNCHANGED <<audit_log, next_id, clock, feedbackVars>>

\* the cutoff of purge_old_logs: midnight UTC of today, less the retained days
Cutoff(days) == ((clock \div TicksPerDay) - days) * TicksPerDay

\* AuditLogger.purge_old_logs(days)
PurgeOldLogs(days) ==
    /\ Cutoff(days) >= 0
    /\ LET cutoff == [wall |-> Cutoff(days), aware |-> TRUE, off |-> 0] IN
       audit_log' = {r \in audit_log : ~TextLt(r.timestamp, IsoFormat(cutoff))}
    /\ q_result' = [q_result EXCEPT !.valid = FALSE, !.rows = {}]
    /\ UNCHANGED <<next_id, clock, feedbackVars>>

-----------------------------------------------------------------------------
(* intelligence/core/feedback.py *)

Ratings == {-1, 1}
Outcomes == {"sold"}

\* FeedbackManager.submit_feedback
SubmitFeedback(rating) ==
    /\ fb_next <= MaxFeedback
    /\ feedback' = feedback \cup {[id |-> fb_next, rating |-> rating, outcome |-> None]}
    /\ fb_next' = fb_next + 1
    /\ UNCHANGED <<auditVars, q_result>>

\* a record_outcome that writes the outcome into the audit row of that id too
RecordOutcome_TouchesAudit(feedback_id, outcome_text) ==
    /\ feedback' = {IF f.id = feedback_id THEN [f EXCEPT !.outcome = outcome_text]
                      ELSE f : f \in feedback}
    /\ audit_log' = {IF r.id = feedback_id THEN [r EXCEPT !.action = outcome_text] ELSE r :
                      r \in audit_log}
    /\ UNCHANGED <<fb_next, next_id, clock, q_result>>

\* FeedbackManager.record_outcome: UPDATE feedback SET outcome WHERE id
RecordOutcome(feedback_id, outcome_text) ==
    /\ feedback' = {IF f.id = feedback_id THEN [f EXCEPT !.outcome = outcome_text]
                      ELSE f : f \in feedback}
    /\ UNCHANGED <<fb_next, auditVars, q_result>>

-----------------------------------------------------------------------------
(* intelligence/api/query.py and intelligence/api/data.py *)

\* the body of the 500 the server sends for an exception no handler caught
InternalServerError == <<"Internal", "Server", "Error">>

\* the audit database as a handler finds it
AuditDb == [log |-> audit_log, next |-> next_id]

\* _audit_log_query_operation: nothing when auditing is disabled; otherwise
\* the INSERT of AuditLogger.log, whose exception, when the write fails,
\* is raised to the caller
AuditLogQueryOperation(db, enabled, write_fails, event_type, action, success) ==
    IF ~enabled THEN [raised |-> FALSE, log |-> db.log, next |-> db.next]
    ELSE IF write_fails THEN [raised |-> TRUE, log |-> db.log, next |-> db.next]
    ELSE [raised |-> FALSE,
          log |-> LogInsert(db.log, db.next,
                            [event_type |-> event_type, timestamp |-> NowLocal,
                             resource |-> "query", action |-> action,
                             success |-> success]),
          next |-> db.next + 1]

\* what a handler leaves behind: the response, the audit database, the store
\* and the engine call it made
Reply(status, detail, rows, audit, failed, engine) ==
    [status |-> status, detail |-> detail, rows |-> rows,
     log |-> audit.log, next |-> audit.next, audit_failed |-> failed,
     tables |-> engine.tables, exec |-> engine.exec,
     outcome |-> engine.outcome]

\* a handler that makes no engine call
NoEngine(tbls) == [tables |-> tbls, exec |-> NoExec, outcome |-> NoOutcome]

\* execute_sql; fails holds the audit writes of this request (first, second)
\* that raise
ExecuteSql(sql, tbls, db, enabled, fails) ==
    LET r == EngineExecute(sql, TRUE, tbls)
        engine == [tables |-> r.tables, exec |-> r.exec,
                   outcome |-> [sql |-> sql, safe |-> TRUE, error |-> r.error,
                                message |-> r.message, rows |-> r.rows]]
        ok == AuditLogQueryOperation(db, enabled, 1 \in fails, "query_sql",
                                     "execute_sql", TRUE)
        bad == AuditLogQueryOperation(db, enabled, 1 \in fails, "query_sql",
                                      "execute_sql", FALSE)
        again == AuditLogQueryOperation(db, enabled, 2 \in fails, "query_sql",
                                        "execute_sql", FALSE)
    IN IF r.error = "UnsafeQueryError"
       THEN IF bad.raised
            THEN Reply(500, InternalServerError, FALSE, bad, TRUE, engine)
            ELSE Reply(400, r.message, FALSE, bad, FALSE, engine)
       ELSE IF r.error # None
       THEN IF bad.raised
            THEN Reply(500, InternalServerError, FALSE, bad, TRUE, engine)
            ELSE Reply(500, <<"Query", "failed:", r.error>>, FALSE, bad, FALSE, engine)
       ELSE IF ~ok.raised
       THEN Reply(200, <<>>, r.rows, ok, FALSE, engine)
       ELSE IF again.raised
       THEN Reply(500, InternalServerError, FALSE, again, TRUE, engine)
       ELSE Reply(500, <<"Query", "failed:", "audit">>, FALSE, again, TRUE, engine)

\* the answer ask_question returns when the orchestrator or the audit write
\* of the success event raised
ErrorAnswer == <<"I", "encountered", "an", "error">>

\* ask_question; the orchestrator answers or raises
AskQuestion(ask_raises, tbls, db, enabled, fails) ==
    LET ok == AuditLogQueryOperation(db, enabled, 1 \in fails, "query_natural",
                                     "ask_question", TRUE)
        bad == AuditLogQueryOperation(db, enabled, 1 \in fails, "query_natural",
                                      "ask_question", FALSE)
        again == AuditLogQueryOperation(db, enabled, 2 \in fails, "query_natural",
                                        "ask_question", FALSE)
    IN IF ask_raises
       THEN IF bad.raised
            THEN Reply(500, InternalServerError, FALSE, bad, TRUE, NoEngine(tbls))
            ELSE Reply(200, ErrorAnswer, FALSE, bad, FALSE, NoEngine(tbls))
       ELSE IF ~ok.raised
       THEN Reply(200, <<"answer">>, TRUE, ok, FALSE, NoEngine(tbls))
       ELSE IF again.raised
       THEN Reply(500, InternalServerError, FALSE, again, TRUE, NoEngine(tbls))
       ELSE Reply(200, ErrorAnswer, FALSE, again, TRUE, NoEngine(tbls))

\* find_similar on the table; by is what the body gives: a record_id, a
\* query, or neither
FindSimilar(table, by, colls, tbls, db, enabled, fails) ==
    LET ok == AuditLogQueryOperation(db, enabled, 1 \in fails, "query_semantic",
                                     "find_similar", TRUE)
    IN IF table \notin colls
       THEN Reply(404, <<"No", "embeddings", "found">>, FALSE, db, FALSE, NoEngine(tbls))
       ELSE IF by = "neither"
       THEN Reply(400, <<"Either", "query", "or", "record_id", "must", "be", "provided">>,
                  FALSE, db, FALSE, NoEngine(tbls))
       ELSE IF ok.raised
       THEN Reply(500, InternalServerError, FALSE, ok, TRUE, NoEngine(tbls))
       ELSE Reply(200, <<>>, TRUE, ok, FALSE, NoEngine(tbls))

\* upload_csv of a file for the table: a file that is no .csv, a CSV without
\* rows, or a CSV with rows
UploadCsv(table, file, tbls, db) ==
    IF file = "notcsv"
    THEN Reply(400, <<"File", "must", "be", "a", "CSV">>, FALSE, db, FALSE, NoEngine(tbls))
    ELSE IF file = "empty"
    THEN Reply(400, <<"CSV", "file", "is", "empty">>, FALSE, db, FALSE, NoEngine(tbls))
    ELSE Reply(200, <<>>, FALSE, db, FALSE, NoEngine(tbls \cup {table}))

\* delete_table
DeleteTable(table, tbls, db) ==
    IF table \notin tbls
    THEN Reply(404, <<"Table", "not", "found">>, FALSE, db, FALSE, NoEngine(tbls))
    ELSE Reply(200, <<"deleted">>, FALSE, db, FALSE, NoEngine(tbls \ {table}))

\* the handler of an endpoint, run on the current state
Handle(endpoint, sql, arg, fails) ==
    CASE endpoint = "sql" -> ExecuteSql(sql, tables, AuditDb, audit_enabled, fails)
      [] endpoint = "ask" ->
            AskQuestion(arg = "raises", tables, AuditDb, audit_enabled, fails)
      [] endpoint = "similar" ->
            FindSimilar(TableT, arg, collections, tables, AuditDb, audit_enabled, fails)
      [] endpoint = "upload" -> UploadCsv(TableT, arg, tables, AuditDb)
      [] endpoint = "delete" -> DeleteTable(TableT, tables, AuditDb)

\* the server answers one request
Serve(endpoint, sql, arg, fails) ==
    \E h \in {Handle(endpoint, sql, arg, fails)} :
    /\ req_id < MaxReq
    /\ req_id' = req_id + 1
    /\ resp' = [endpoint |-> endpoint, sql |-> sql, arg |-> arg,
                status |-> h.status, detail |-> h.detail, rows |-> h.rows,
                audit_failed |-> h.audit_failed]
    /\ audit_log' = h.log
    /\ next_id' = h.next
    /\ tables' = h.tables
    /\ last_exec' = h.exec
    /\ outcome' = h.outcome
    /\ UNCHANGED <<sql_in, audit_enabled, collections, clock>>

\* the statements clients post
DropT == PhraseDrop \o <<" ">> \o TableT
SelectT == PhraseSelect \o <<" ">> \o TableT
ApiStatements ==
    {DropT, SelectT, SelectT \o <<";">> \o DropT, SelectT \o <<";">> \o SelectT,
     SelectT \o <<" ", "-", "-">>, PhraseSelectLower \o <<" ">> \o TableT \o <<";">>,
     PhraseSelect, <<>>}

\* which audit writes of a request raise
Failures == SUBSET {1, 2}

\* POST /query/sql
SqlRequest(sql, fails) == Serve("sql", sql, "", fails)

\* POST /query/ask
AskRequest(arg, fails) == Serve("ask", <<>>, arg, fails)

\* POST /query/similar
SimilarRequest(arg, fails) == Serve("similar", <<>>, arg, fails)

\* POST /data/upload
UploadRequest(arg) == Serve("upload", <<>>, arg, {})

\* DELETE /data/tables/{table_name}
DeleteRequest == Serve("delete", <<>>, "", {})

-----------------------------------------------------------------------------
(* shared/audit/export.py *)

\* the signing key of the exporter, and a key of somebody else
SecretKey == "secret"
OtherKey == "other"

\* _hash_file: SHA-256 of the file, taken as collision free
HashFile(lines) == [alg |-> "sha256", of |-> lines]

\* _sign_file: HMAC-SHA256 of the file under the key, taken as unforgeable
SignFile(key, lines) == [key |-> key, msg |-> lines]

\* the line csv.DictWriter writes for an event (after the header line)
CsvLine(row) == <<row.timestamp, row.event_type, row.resource, row.action, row.success>>

\* the orders in which get_events may return the rows: newest first
NewestFirst(rows) ==
    {s \in [1..Cardinality(rows) -> rows] :
        /\ \A i, j \in DOMAIN s : i # j => s[i] # s[j]
        /\ \A i, j \in DOMAIN s : i < j => TextLeq(s[j].timestamp, s[i].timestamp)}

\* a line somebody adds to a CSV by hand
ForgedLine == <<<<"0", "9">>, "data_delete", "t", "delete_table", TRUE>>

\* export_csv(output_path, start_date, end_date): the CSV, the signature file
\* and the metadata file
ExportCsv(start, end) ==
    /\ \E events \in NewestFirst(Matching(audit_log, start, end)) :
          LET lines == [i \in DOMAIN events |-> CsvLine(events[i])]
              csv == [exists |-> TRUE, lines |-> lines]
              sig == [exists |-> TRUE, key |-> SecretKey, msg |-> lines, pad |-> FALSE]
              meta == [exists |-> TRUE, csv_hash |-> HashFile(lines),
                       record_count |-> Len(events)]
          IN /\ csv_file' = csv
             /\ sig_file' = sig
             /\ meta_file' = meta
             /\ exported' = [done |-> TRUE, csv |-> csv, sig |-> sig, meta |-> meta]
    /\ verify' = NoVerify

\* a verification that does not look at the signature file
Verify_IgnoresSignature(csv, sig, meta, key) ==
    IF ~csv.exists \/ ~sig.exists \/ ~meta.exists
    THEN [NoVerify EXCEPT !.error = "FileNotFoundError"]
    ELSE LET hash_valid == HashFile(csv.lines) = meta.csv_hash
         IN [error |-> None, hash_valid |-> hash_valid, signature_valid |-> hash_valid,
             tampered |-> ~hash_valid, record_count |-> meta.record_count]

\* verify_export on the three files, by an exporter holding key
Verify(csv, sig, meta, key) ==
    IF ~csv.exists \/ ~sig.exists \/ ~meta.exists
    THEN [NoVerify EXCEPT !.error = "FileNotFoundError"]
    ELSE LET hash_valid == HashFile(csv.lines) = meta.csv_hash
             stored_signature == [key |-> sig.key, msg |-> sig.msg]
             signature_valid == SignFile(key, csv.lines) = stored_signature
         IN [error |-> None, hash_valid |-> hash_valid,
             signature_valid |-> signature_valid,
             tampered |-> ~(hash_valid /\ signature_valid),
             record_count |-> meta.record_count]

\* verify_export(csv_path)
VerifyExport ==
    /\ verify' = Verify(csv_file, sig_file, meta_file, SecretKey)
    /\ UNCHANGED <<csv_file, sig_file, meta_file, exported>>

\* somebody edits the CSV: a line is appended, or the last line is removed
EditCsv ==
    /\ csv_file.exists
    /\ \/ /\ Len(csv_file.lines) < MaxLines
          /\ csv_file' = [csv_file EXCEPT !.lines = Append(@, ForgedLine)]
       \/ /\ csv_file.lines # <<>>
          /\ csv_file' = [csv_file EXCEPT !.lines = SubSeq(@, 1, Len(@) - 1)]
    /\ verify' = NoVerify
    /\ UNCHANGED <<sig_file, meta_file, exported>>

\* somebody edits the metadata file: the record count, or the hash, which
\* anybody can compute for the CSV that is there
EditMeta ==
    /\ meta_file.exists /\ csv_file.exists
    /\ \/ meta_file' = [meta_file EXCEPT !.record_count = (@ + 1) % (MaxLines + 1)]
       \/ meta_file' = [meta_file EXCEPT !.csv_hash = HashFile(csv_file.lines)]
    /\ verify' = NoVerify
    /\ UNCHANGED <<csv_file, sig_file, exported>>

\* somebody edits the signature file: trailing white space is added, the
\* CSV that is there is signed under another key, the file as exported is put
\* back, or the file is removed
EditSig ==
    /\ sig_file.exists /\ csv_file.exists
    /\ \/ sig_file' = [sig_file EXCEPT !.pad = TRUE]
       \/ sig_file' = [exists |-> TRUE, key |-> OtherKey, msg |-> csv_file.lines,
                       pad |-> FALSE]
       \/ sig_file' = exported.sig
       \/ sig_file' = NoSig
    /\ verify' = NoVerify
    /\ UNCHANGED <<csv_file, meta_file, exported>>

-----------------------------------------------------------------------------
(* intelligence/core/knowledge.py *)

\* the category the template defines, and its factors: a calculation is the
\* sequence of the words of its (lower-case) text
Category == "perfect_sale"
TemplateFactors ==
    <<[name |-> "has_x", weight |-> 10, description |-> "d",
       calculation |-> <<"x", "is", "not", "null">>],
      [name |-> "y_min", weight |-> 5, description |-> "d",
       calculation |-> <<"y", ">=", "1">>]>>

\* where the factor of that name is in the list, or 0
IndexOf(factors, name) ==
    IF \E i \in DOMAIN factors : factors[i].name = name
    THEN Min({i \in DOMAIN factors : factors[i].name = name})
    ELSE 0

\* _load_custom, one factor of the overlay merged into the list: an existing
\* factor takes its weight and description, a new one is appended
MergeFactor(factors, data) ==
    LET i == IndexOf(factors, data.name) IN
    IF i # 0
    THEN [factors EXCEPT ![i] = [@ EXCEPT !.weight = data.weight,
                                          !.description = data.description]]
    ELSE Append(factors, data)

RECURSIVE MergeAll(_, _)
MergeAll(factors, custom) ==
    IF custom = <<>> THEN factors
    ELSE MergeAll(MergeFactor(factors, Head(custom)), Tail(custom))

\* KnowledgeManager(knowledge_path, template_config): the factors of the
\* category after _load_from_template and _load_custom
LoadManager(template, file) ==
    IF file.exists THEN MergeAll(template, file.factors) ELSE template

\* save_custom: every factor of the manager goes into knowledge.json
SaveCustom(factors) == [exists |-> TRUE, factors |-> factors]

\* an argument that is None
NotGiven == [given |-> FALSE, value |-> 0]

\* the list after update_scoring_factor found the factor at i
Updated(factors, i, weight, description) ==
    [factors EXCEPT
        ![i] = [@ EXCEPT
                  !.weight = IF weight.given THEN weight.value ELSE @,
                  !.description = IF description.given THEN "new" ELSE @]]

\* an update_scoring_factor that forgets to save
UpdateScoringFactor_NoSave(category, name, weight, description) ==
    LET i == IF category = Category THEN IndexOf(km, name) ELSE 0 IN
    /\ km' = IF i # 0 THEN Updated(km, i, weight, description) ELSE km
    /\ overlay' = overlay
    /\ updated' = IF i # 0 /\ weight.given
                  THEN [updated EXCEPT ![name] = [set |-> TRUE, weight |-> weight.value]]
                  ELSE updated
    /\ UNCHANGED scored

\* update_scoring_factor(category, name, weight, description); it returns
\* True when the factor exists, and then updated records the weight given
UpdateScoringFactor(category, name, weight, description) ==
    LET i == IF category = Category THEN IndexOf(km, name) ELSE 0 IN
    /\ km' = IF i # 0 THEN Updated(km, i, weight, description) ELSE km
    /\ overlay' = IF i # 0 THEN SaveCustom(km') ELSE overlay
    /\ updated' = IF i # 0 /\ weight.given
                  THEN [updated EXCEPT ![name] = [set |-> TRUE, weight |-> weight.value]]
                  ELSE updated
    /\ UNCHANGED scored

\* the process restarts: a new KnowledgeManager on the same file and template
Restart ==
    /\ km' = LoadManager(TemplateFactors, overlay)
    /\ UNCHANGED <<overlay, updated, scored>>

\* get_scoring_factors(category), the weight of one factor
WeightOf(factors, name) == factors[IndexOf(factors, name)].weight

-----------------------------------------------------------------------------
(* intelligence/core/scoring.py *)

\* float(text) of one word: the digits the model uses
IsNumber(word) == word \in {"0", "1", "2"}
NumberOf(word) == CASE word = "0" -> 0 [] word = "1" -> 1 [] word = "2" -> 2

\* where the word stands with text on both sides (" op " in calculation)
Inner(calc, word) == {i \in 2..(Len(calc) - 1) : calc[i] = word}

\* where "is not null" stands
NotNullAt(calc) ==
    {i \in 1..(Len(calc) - 2) : SubSeq(calc, i, i + 2) = <<"is", "not", "null">>}

\* calculation.split(" op "): the words before the first op, and the words
\* between it and the next op
Before(calc, at) == SubSeq(calc, 1, Min(at) - 1)
After(calc, at) ==
    LET first == Min(at)
        rest == {i \in at : i > first}
    IN SubSeq(calc, first + 1, IF rest = {} THEN Len(calc) ELSE Min(rest) - 1)

\* col_name in record and record[col_name] is not None
HasValue(record, col) ==
    /\ Len(col) = 1
    /\ col[1] \in DOMAIN record
    /\ ~record[col[1]].null

\* float(parts[1].strip()) raises ValueError
BadNumber(words) == ~(Len(words) = 1 /\ IsNumber(words[1]))

Scored(factor) == [raised |-> FALSE, passed |-> TRUE, score |-> factor.weight]
NotScored == [raised |-> FALSE, passed |-> FALSE, score |-> 0]
Raised == [raised |-> TRUE, passed |-> FALSE, score |-> 0]

\* the comparison of a threshold pattern
Compare(op, actual, threshold) ==
    CASE op = "<=" -> actual <= threshold
      [] op = "<" -> actual < threshold
      [] op = ">=" -> actual >= threshold
      [] op = ">" -> actual > threshold

\* the two threshold branches: "column op value"
Threshold(factor, record, op) ==
    LET calc == factor.calculation
        at == Inner(calc, op)
        col == Before(calc, at)
    IN IF BadNumber(After(calc, at)) THEN Raised
       ELSE IF HasValue(record, col)
               /\ Compare(op, record[col[1]].v, NumberOf(After(calc, at)[1]))
       THEN Scored(factor)
       ELSE NotScored

\* the ratio branch: "a / b > value"
Ratio(factor, record) ==
    LET calc == factor.calculation
        ratio_expr == Before(calc, Inner(calc, ">"))
        slash == Inner(ratio_expr, "/")
        numerator_col == Before(ratio_expr, slash)
        denominator_col == After(ratio_expr, slash)
    IN IF BadNumber(After(calc, Inner(calc, ">"))) THEN Raised
       ELSE IF /\ HasValue(record, numerator_col)
               /\ HasValue(record, denominator_col)
               /\ LET n == record[numerator_col[1]].v
                      d == record[denominator_col[1]].v
                      t == NumberOf(After(calc, Inner(calc, ">"))[1])
                  IN (d > 0 /\ n > t * d) \/ (d < 0 /\ n < t * d)
       THEN Scored(factor)
       ELSE NotScored

\* _evaluate_factor: the branches in the order of the code
EvaluateFactor(factor, record) ==
    LET calc == factor.calculation IN
    IF NotNullAt(calc) # {}
    THEN IF HasValue(record, Before(calc, NotNullAt(calc)))
         THEN Scored(factor) ELSE NotScored
    ELSE IF Inner(calc, "=") # {}
    THEN LET col == Before(calc, Inner(calc, "="))
             expected == After(calc, Inner(calc, "="))
         IN IF Len(col) = 1 /\ col[1] \in DOMAIN record /\ Len(expected) = 1
               /\ LET actual == record[col[1]] IN
                  IF expected[1] = "true" THEN ~actual.null /\ actual.v = 1
                  ELSE IF expected[1] = "false" THEN ~actual.null /\ actual.v = 0
                  ELSE IF actual.null THEN expected[1] = "none"
                  ELSE IsNumber(expected[1]) /\ NumberOf(expected[1]) = actual.v
            THEN Scored(factor) ELSE NotScored
    ELSE IF Inner(calc, "<=") # {} THEN Threshold(factor, record, "<=")
    ELSE IF Inner(calc, "<") # {} THEN Threshold(factor, record, "<")
    ELSE IF Inner(calc, ">=") # {} THEN Threshold(factor, record, ">=")
    ELSE IF Inner(calc, ">") # {} THEN Threshold(factor, record, ">")
    ELSE IF Inner(calc, "/") # {} /\ Inner(calc, ">") # {} THEN Ratio(factor, record)
    ELSE NotScored

RECURSIVE SumOver(_, _)
SumOver(f, n) == IF n = 0 THEN 0 ELSE f[n] + SumOver(f, n - 1)

\* score_record(record) on the factors of the manager: the ScoredRecord, or
\* the exception of a factor that raised; percentage is kept as a fraction
ScoreOf(factors, record) ==
    LET evals == [i \in DOMAIN factors |-> EvaluateFactor(factors[i], record)]
        max_possible == SumOver([i \in DOMAIN factors |-> factors[i].weight], Len(factors))
        total_score == SumOver([i \in DOMAIN factors |-> evals[i].score], Len(factors))
    IN IF \E i \in DOMAIN factors : evals[i].raised
       THEN [NoScore EXCEPT !.valid = TRUE, !.raised = TRUE, !.record = record]
       ELSE [valid |-> TRUE, raised |-> FALSE, record |-> record,
             total_score |-> total_score,
             max_possible |-> max_possible,
             percentage |-> IF max_possible > 0
                            THEN [num |-> total_score * 100, den |-> max_possible]
                            ELSE [num |-> 0, den |-> 1],
             passed |-> {factors[i].name : i \in {j \in DOMAIN factors : evals[j].passed}},
             factors |-> {factors[i].name : i \in DOMAIN factors}]

\* the rows that are scored
Null == [null |-> TRUE, v |-> 0]
Value(n) == [null |-> FALSE, v |-> n]
Records ==
    {[c \in {"x"} |-> x] : x \in {Null, Value(1)}}
    \cup {[c \in {"x", "y"} |-> IF c = "x" THEN x ELSE y] :
            x \in {Null, Value(1)}, y \in {Value(0), Value(2)}}

\* SaleScorer.score_record(record)
ScoreRecord(record) ==
    /\ scored' = ScoreOf(km, record)
    /\ UNCHANGED <<km, overlay, updated>>

-----------------------------------------------------------------------------
(* intelligence/core/security.py: table names *)

\* the characters names are made of: ASCII letters, a digit, the underscore,
\* a space, a double quote, and a letter outside ASCII
NameChars == {"o", "r", "t", "T", "1", "_", " ", "\"", "é"}

\* the longest name, in characters, a caller passes
MaxName == 3

MAX_TABLE_NAME_LENGTH == 128

\* the ASCII letters of the model: those of NameChars and of the words
\* sanitize_table_name puts into a name
AsciiLower == {"a", "b", "d", "e", "l", "o", "r", "t"}

\* RESERVED_KEYWORDS: those that these letters spell
RESERVED_KEYWORDS ==
    {<<"o", "r">>, <<"t", "a", "b", "l", "e">>, <<"a", "l", "t", "e", "r">>,
     <<"d", "e", "l", "e", "t", "e">>}

\* str.lower()
LowerChar(c) == IF c = "T" THEN "t" ELSE c
Lower(s) == [i \in 1..Len(s) |-> LowerChar(s[i])]

\* [a-zA-Z], [0-9]
IsAsciiLetter(c) == c \in AsciiLower \cup {"T"}
IsAsciiDigit(c) == c = "1"

\* str.isalnum() and str.isdigit(): Unicode letters count
IsAlnum(c) == IsAsciiLetter(c) \/ IsAsciiDigit(c) \/ c = "é"
IsDigit(c) == IsAsciiDigit(c)

\* IDENTIFIER_PATTERN.match(name)
IdentifierPattern(name) ==
    /\ name # <<>>
    /\ IsAsciiLetter(name[1]) \/ name[1] = "_"
    /\ \A i \in 1..Len(name) :
          IsAsciiLetter(name[i]) \/ IsAsciiDigit(name[i]) \/ name[i] = "_"

\* validate_table_name(name): Ok, or the ValidationError it raises
ValidateTableName(name) ==
    IF name = <<>> THEN "Table name cannot be empty"
    ELSE IF Len(name) > MAX_TABLE_NAME_LENGTH THEN "Table name too long"
    ELSE IF ~IdentifierPattern(name) THEN "Invalid table name"
    ELSE IF Lower(name) \in RESERVED_KEYWORDS THEN "reserved SQL keyword"
    ELSE Ok

\* "".join(c if c.isalnum() else "_" for c in s)
ReplaceInvalid(s) == [i \in 1..Len(s) |-> IF IsAlnum(s[i]) THEN s[i] ELSE "_"]

\* str.strip("_")
RECURSIVE StripUnderscores(_)
StripUnderscores(s) ==
    IF s # <<>> /\ Head(s) = "_" THEN StripUnderscores(Tail(s))
    ELSE IF s # <<>> /\ s[Len(s)] = "_"
    THEN StripUnderscores(SubSeq(s, 1, Len(s) - 1))
    ELSE s

TableData == <<"t", "a", "b", "l", "e", "_", "d", "a", "t", "a">>
SuffixTable == <<"_", "t", "a", "b", "l", "e">>

\* sanitize_table_name(name)
SanitizeTableName(name) ==
    IF name = <<>> THEN TableData
    ELSE LET stripped == StripUnderscores(ReplaceInvalid(Lower(name)))
             prefixed == IF stripped # <<>> /\ IsDigit(stripped[1])
                         THEN <<"t", "_">> \o stripped ELSE stripped
             filled == IF prefixed = <<>> THEN TableData ELSE prefixed
             cut == IF Len(filled) > MAX_TABLE_NAME_LENGTH
                    THEN SubSeq(filled, 1, MAX_TABLE_NAME_LENGTH) ELSE filled
         IN IF Lower(cut) \in RESERVED_KEYWORDS THEN cut \o SuffixTable ELSE cut

\* str.replace('"', '""')
RECURSIVE DoubleQuotes(_)
DoubleQuotes(s) ==
    IF s = <<>> THEN <<>>
    ELSE (IF Head(s) = "\"" THEN <<"\"", "\"">> ELSE <<Head(s)>>)
         \o DoubleQuotes(Tail(s))

\* quote_identifier(name)
QuoteIdentifier(name) == <<"\"">> \o DoubleQuotes(name) \o <<"\"">>

\* the names callers pass
RECURSIVE NamesOf(_)
NamesOf(n) ==
    IF n = 0 THEN {<<>>}
    ELSE LET shorter == NamesOf(n - 1) IN
         shorter \cup {Append(s, c) : s \in {t \in shorter : Len(t) = n - 1},
                                      c \in NameChars}
Names == NamesOf(MaxName)

\* no table-name function has been called on the name
NoNaming == [op |-> "none", name |-> <<>>, result |-> <<>>, error |-> Ok]

\* a caller sanitizes the name
Sanitize ==
    /\ naming' = [naming EXCEPT !.op = "sanitize",
                                !.result = SanitizeTableName(naming.name),
                                !.error = Ok]

\* a caller validates the name as it is
Validate ==
    /\ naming' = [naming EXCEPT !.op = "validate",
                                !.result = naming.name,
                                !.error = ValidateTableName(naming.name)]

\* a caller quotes the name
Quote ==
    /\ naming' = [naming EXCEPT !.op = "quote",
                                !.result = QuoteIdentifier(naming.name),
                                !.error = Ok]
-----------------------------------------------------------------------------
(* intelligence/core/ingest.py, intelligence/api/data.py,
   intelligence/core/vector_engine.py: the data store in detail *)

\* the most data rows a CSV holds
MaxRows == 1

\* CSV content pandas cannot parse (no columns), and content with a header
\* and rows
Unparseable == [parsed |-> FALSE, header |-> <<>>, rows |-> 0]
Headers == {<< <<"T">> >>, << <<"o", " ">>, <<"1">> >>}
Csvs ==
    {Unparseable}
    \cup {[parsed |-> TRUE, header |-> h, rows |-> r] : h \in Headers, r \in 0..MaxRows}

\* _clean_column_name(name)
CleanColumnName(name) ==
    LET clean == Lower(StripUnderscores(ReplaceInvalid(name)))
    IN IF clean = <<>> THEN <<"c", "o", "l", "u", "m", "n">> ELSE clean

\* df.to_sql(table_name, conn, if_exists="replace", index=False)
ToSql(st, table_name, columns, rows) ==
    [n \in DOMAIN st \cup {table_name} |->
        IF n = table_name THEN [columns |-> columns, rows |-> rows] ELSE st[n]]

\* df.to_sql(..., if_exists="append"): the rows are added to the table
ToSqlAppend(st, table_name, columns, rows) ==
    [n \in DOMAIN st \cup {table_name} |->
        IF n # table_name THEN st[n]
        ELSE IF n \in DOMAIN st
        THEN [columns |-> st[n].columns, rows |-> st[n].rows + rows]
        ELSE [columns |-> columns, rows |-> rows]]

NoResult == [table_name |-> <<>>, rows_imported |-> 0, columns |-> <<>>]

\* an ingest_csv that appends to the table it finds
IngestCsv_Appends(csv_content, table_name, st) ==
    IF ~csv_content.parsed
    THEN [error |-> "ValueError", store |-> st, result |-> NoResult]
    ELSE IF csv_content.rows = 0
    THEN [error |-> "ValueError", store |-> st, result |-> NoResult]
    ELSE LET cleaned == [i \in DOMAIN csv_content.header |->
                            CleanColumnName(csv_content.header[i])]
         IN [error |-> Ok,
             store |-> ToSqlAppend(st, table_name, cleaned, csv_content.rows),
             result |-> [table_name |-> table_name,
                         rows_imported |-> csv_content.rows,
                         columns |-> cleaned]]

\* an ingest_csv without the check of df.empty
IngestCsv_NoEmptyCheck(csv_content, table_name, st) ==
    IF ~csv_content.parsed
    THEN [error |-> "ValueError", store |-> st, result |-> NoResult]
    ELSE LET cleaned == [i \in DOMAIN csv_content.header |->
                            CleanColumnName(csv_content.header[i])]
         IN [error |-> Ok,
             store |-> ToSql(st, table_name, cleaned, csv_content.rows),
             result |-> [table_name |-> table_name,
                         rows_imported |-> csv_content.rows,
                         columns |-> cleaned]]

\* DataIngestor.ingest_csv(csv_content, table_name) on the store st: the
\* error it raises or Ok, the store after it, the IngestResult
IngestCsv(csv_content, table_name, st) ==
    IF ~csv_content.parsed
    THEN [error |-> "ValueError", store |-> st, result |-> NoResult]
    ELSE IF csv_content.rows = 0
    THEN [error |-> "ValueError", store |-> st, result |-> NoResult]
    ELSE LET cleaned == [i \in DOMAIN csv_content.header |->
                            CleanColumnName(csv_content.header[i])]
         IN [error |-> Ok,
             store |-> ToSql(st, table_name, cleaned, csv_content.rows),
             result |-> [table_name |-> table_name,
                         rows_imported |-> csv_content.rows,
                         columns |-> cleaned]]

\* no call has been made on the data store
NoIngest == [op |-> "none", name |-> <<>>, csv |-> Unparseable, status |-> 0,
             error |-> Ok, table_name |-> <<>>, statement |-> <<>>,
             before |-> [exists |-> FALSE, columns |-> <<>>, rows |-> 0]]

\* what the store holds under the name
Held(st, table_name) ==
    IF table_name \in DOMAIN st
    THEN [exists |-> TRUE, columns |-> st[table_name].columns,
          rows |-> st[table_name].rows]
    ELSE [exists |-> FALSE, columns |-> <<>>, rows |-> 0]

\* a caller of the core ingests the CSV under the name
Ingest(csv_content, table_name) ==
    \E r \in {IngestCsv(csv_content, table_name, store)} :
    /\ store' = r.store
    /\ ingest' = [op |-> "ingest_csv", name |-> table_name, csv |-> csv_content,
                  status |-> 0, error |-> r.error,
                  table_name |-> r.result.table_name, statement |-> <<>>,
                  before |-> Held(store, table_name)]
    /\ UNCHANGED collections

\* upload_csv, the table name it makes of the file name:
\* Path(filename).stem.lower().replace(" ", "_"), cleaned and stripped
StemName(stem) ==
    StripUnderscores(ReplaceInvalid(
        [i \in 1..Len(Lower(stem)) |->
            IF Lower(stem)[i] = " " THEN "_" ELSE Lower(stem)[i]]))

\* upload_csv, the name it ingests under: the caller's, or the file's
TargetName(file, table_name) ==
    IF table_name = <<>> THEN StemName(file.stem) ELSE table_name

\* POST /data/upload: file is [stem, csv] for "<stem>.csv" or another
\* suffix; table_name is <<>> when the caller gives none
Upload(file, table_name, csv_content) ==
    IF ~file.csv
    THEN /\ ingest' = [op |-> "upload_csv", name |-> table_name,
                       csv |-> csv_content, status |-> 400,
                       error |-> "File must be a CSV", table_name |-> <<>>,
                       statement |-> <<>>,
                       before |-> Held(store, TargetName(file, table_name))]
         /\ UNCHANGED <<store, collections>>
    ELSE \E r \in {IngestCsv(csv_content, TargetName(file, table_name), store)} :
         /\ store' = r.store
         /\ ingest' = [op |-> "upload_csv", name |-> table_name,
                       csv |-> csv_content,
                       status |-> IF r.error = Ok THEN 200 ELSE 400,
                       error |-> r.error,
                       table_name |-> r.result.table_name, statement |-> <<>>,
                       before |-> Held(store, TargetName(file, table_name))]
         /\ UNCHANGED collections

\* the words sqlite keeps for itself among those the letters of the model
\* spell
SqliteKeywords ==
    {<<"o", "r">>, <<"t", "o">>, <<"a", "d", "d">>, <<"a", "l", "l">>,
     <<"t", "a", "b", "l", "e">>, <<"a", "l", "t", "e", "r">>,
     <<"d", "e", "l", "e", "t", "e">>}

\* the text between the quotes of a quoted identifier: "" reads as one quote,
\* a single quote inside ends the identifier too early
RECURSIVE Unquoted(_)
Unquoted(s) ==
    IF s = <<>> THEN [ok |-> TRUE, name |-> <<>>]
    ELSE IF Head(s) # "\""
    THEN LET rest == Unquoted(Tail(s))
         IN [ok |-> rest.ok, name |-> <<Head(s)>> \o rest.name]
    ELSE IF Len(s) >= 2 /\ s[2] = "\""
    THEN LET rest == Unquoted(SubSeq(s, 3, Len(s)))
         IN [ok |-> rest.ok, name |-> <<"\"">> \o rest.name]
    ELSE [ok |-> FALSE, name |-> <<>>]

\* sqlite reads the text as the name of one table: a quoted identifier, or a
\* bare word that is no keyword
SqliteName(text) ==
    IF Len(text) >= 2 /\ Head(text) = "\"" /\ text[Len(text)] = "\""
    THEN Unquoted(SubSeq(text, 2, Len(text) - 1))
    ELSE [ok |-> /\ text # <<>>
                 /\ ~IsAsciiDigit(text[1])
                 /\ \A i \in 1..Len(text) : IsAlnum(text[i]) \/ text[i] = "_"
                 /\ Lower(text) \notin SqliteKeywords,
          name |-> text]

DropTable == PhraseDrop \o <<" ">>
SelectFrom == PhraseSelect \o <<" ">>

\* the tables of the store the name read from a statement refers to
Referred(st, text) ==
    IF SqliteName(text).ok
    THEN {n \in DOMAIN st : Lower(n) = Lower(SqliteName(text).name)}
    ELSE {}

\* DataIngestor.delete_table(table_name): what it returns or raises, the
\* statement it builds, the store after it
DeleteFromStore(table_name, st) ==
    LET statement == DropTable \o table_name
        hit == Referred(st, table_name)
    IN IF table_name \notin DOMAIN st
       THEN [error |-> Ok, deleted |-> FALSE, statement |-> <<>>, store |-> st]
       ELSE IF hit = {}
       THEN [error |-> "OperationalError", deleted |-> FALSE,
             statement |-> statement, store |-> st]
       ELSE [error |-> Ok, deleted |-> TRUE, statement |-> statement,
             store |-> [n \in DOMAIN st \ hit |-> st[n]]]

\* DELETE /data/tables/{table_name}
Delete(table_name) ==
    \E r \in {DeleteFromStore(table_name, store)} :
    /\ store' = r.store
    /\ ingest' = [op |-> "delete_table", name |-> table_name, csv |-> Unparseable,
                  status |-> IF r.error # Ok THEN 500
                             ELSE IF r.deleted THEN 200 ELSE 404,
                  error |-> r.error, table_name |-> table_name,
                  statement |-> r.statement,
                  before |-> Held(store, table_name)]
    /\ UNCHANGED collections

\* SaleScorer.score_table(table_name): the statement it builds and runs
ScoreTable(table_name) ==
    /\ ingest' = [op |-> "score_table", name |-> table_name, csv |-> Unparseable,
                  status |-> 0,
                  error |-> IF Referred(store, table_name) = {}
                            THEN "OperationalError" ELSE Ok,
                  table_name |-> table_name,
                  statement |-> SelectFrom \o table_name,
                  before |-> Held(store, table_name)]
    /\ UNCHANGED <<store, collections>>

\* VectorEngine._get_collection(table_name): get_or_create_collection
GetCollection(colls, table_name) == colls \cup {table_name}

\* VectorEngine.embed_records(table_name, records, id_field) with records
EmbedRecords(table_name) ==
    /\ collections' = GetCollection(collections, table_name)
    /\ ingest' = [NoIngest EXCEPT !.op = "embed_records", !.name = table_name]
    /\ UNCHANGED store

\* VectorEngine.search_similar(table_name, query)
SearchSimilar(table_name) ==
    /\ collections' = GetCollection(collections, table_name)
    /\ ingest' = [NoIngest EXCEPT !.op = "search_similar", !.name = table_name]
    /\ UNCHANGED store

\* VectorEngine.delete_collection(table_name)
DeleteCollection(table_name) ==
    /\ collections' = collections \ {table_name}
    /\ ingest' = [NoIngest EXCEPT !.op = "delete_collection", !.name = table_name]
    /\ UNCHANGED store
-----------------------------------------------------------------------------
(* intelligence/core/orchestrator.py *)

\* the context _gather_context starts from; ran records the steps taken
EmptyContext ==
    [sql_results |-> "None", sql_query |-> FALSE, similar_records |-> FALSE,
     knowledge |-> FALSE, sql_error |-> FALSE, semantic_error |-> FALSE,
     ran |-> {}]

\* what the engines do when they are called in one request: get_schema,
\* natural_to_sql, execute, search_similar, the Brain
Behaviours ==
    [schema : {"ok", "raises"},
     translate : {"ok", "raises"},
     execute : {"rows", "empty", "raises"},
     search : {"found", "nothing", "raises"},
     brain : {"ok", "raises"}]

\* ClassificationResult: the engines the question needs
Classifications ==
    [needs_sql : BOOLEAN, needs_semantic : BOOLEAN, needs_knowledge : BOOLEAN]

\* an SQL step without the try: the exception leaves _gather_context
SqlStep_Aborts(context, does) ==
    IF does.translate = "raises" \/ does.execute = "raises"
    THEN [raised |-> TRUE, context |-> context]
    ELSE [raised |-> FALSE,
          context |-> [context EXCEPT !.sql_query = TRUE,
                                      !.sql_results = does.execute,
                                      !.ran = @ \cup {"sql"}]]

\* the SQL step of _gather_context, inside its try
SqlStep(context, does) ==
    IF does.translate = "raises" \/ does.execute = "raises"
    THEN [raised |-> FALSE,
          context |-> [context EXCEPT !.sql_error = TRUE, !.ran = @ \cup {"sql"}]]
    ELSE [raised |-> FALSE,
          context |-> [context EXCEPT !.sql_query = TRUE,
                                      !.sql_results = does.execute,
                                      !.ran = @ \cup {"sql"}]]

\* the semantic step of _gather_context, inside its try
SemanticStep(context, does) ==
    IF does.search = "raises"
    THEN [context EXCEPT !.semantic_error = TRUE, !.ran = @ \cup {"semantic"}]
    ELSE [context EXCEPT !.similar_records = (does.search = "found"),
                         !.ran = @ \cup {"semantic"}]

\* _gather_context(question, classification, schema)
GatherContext(classification, does) ==
    LET first == IF classification.needs_sql THEN SqlStep(EmptyContext, does)
                 ELSE [raised |-> FALSE, context |-> EmptyContext]
        second == IF classification.needs_semantic
                  THEN SemanticStep(first.context, does) ELSE first.context
        third == IF classification.needs_knowledge
                 THEN [second EXCEPT !.knowledge = TRUE, !.ran = @ \cup {"knowledge"}]
                 ELSE second
    IN IF first.raised THEN [raised |-> TRUE, context |-> first.context]
       ELSE [raised |-> FALSE, context |-> third]

\* _synthesize(question, context, classification): the IntelligenceResponse
Synthesize(context, does) ==
    [answer |-> IF does.brain = "raises" THEN "unable" ELSE "brain",
     supporting_data |-> context.sql_results,
     sql_used |-> context.sql_query,
     similar_records |-> context.similar_records]

NoResponse == [answer |-> "None", supporting_data |-> "None", sql_used |-> FALSE,
               similar_records |-> FALSE]

\* nobody has asked
NoAnswer ==
    [asked |-> FALSE, raised |-> FALSE,
     classification |-> [needs_sql |-> FALSE, needs_semantic |-> FALSE,
                         needs_knowledge |-> FALSE],
     does |-> [schema |-> "ok", translate |-> "ok", execute |-> "rows",
               search |-> "found", brain |-> "ok"],
     context |-> EmptyContext, response |-> NoResponse]

\* IntelligenceOrchestrator.ask(question) for a question of the
\* classification, with engines that behave as does says
Ask(classification, does) ==
    \E g \in {GatherContext(classification, does)} :
    /\ answer' =
          IF does.schema = "raises" \/ g.raised
          THEN [asked |-> TRUE, raised |-> TRUE, classification |-> classification,
                does |-> does,
                context |-> IF does.schema = "raises" THEN EmptyContext ELSE g.context,
                response |-> NoResponse]
          ELSE [asked |-> TRUE, raised |-> FALSE, classification |-> classification,
                does |-> does, context |-> g.context,
                response |-> Synthesize(g.context, does)]
-----------------------------------------------------------------------------
(* intelligence/core/refinement.py *)

\* the most proposals one call is given
MaxAdjustments == 2

\* KnowledgeManager.update_scoring_factor(category, name, weight=weight) on
\* the factors and the overlay file: both after the call, and what it returns
UpdateWeight(factors, file, category, name, weight) ==
    LET i == IF category = Category THEN IndexOf(factors, name) ELSE 0
        changed == Updated(factors, i, [given |-> TRUE, value |-> weight], NotGiven)
    IN IF i # 0
       THEN [km |-> changed, overlay |-> SaveCustom(changed), success |-> TRUE]
       ELSE [km |-> factors, overlay |-> file, success |-> FALSE]

\* results[name] = value
SetResult(results, name, value) ==
    [n \in DOMAIN results \cup {name} |-> IF n = name THEN value ELSE results[n]]

\* a loop body that also skips a proposal whose confidence equals the floor
ApplyOne_StrictFloor(st, adj, min_confidence) ==
    IF adj.confidence <= min_confidence
    THEN [st EXCEPT !.results = SetResult(@, adj.factor_name, FALSE)]
    ELSE LET u == UpdateWeight(st.km, st.overlay, adj.category, adj.factor_name,
                               adj.suggested_weight)
         IN [km |-> u.km, overlay |-> u.overlay,
             results |-> SetResult(st.results, adj.factor_name, u.success)]

\* apply_weight_adjustments, the body of its loop for one proposal
ApplyOne(st, adj, min_confidence) ==
    IF adj.confidence < min_confidence
    THEN [st EXCEPT !.results = SetResult(@, adj.factor_name, FALSE)]
    ELSE LET u == UpdateWeight(st.km, st.overlay, adj.category, adj.factor_name,
                               adj.suggested_weight)
         IN [km |-> u.km, overlay |-> u.overlay,
             results |-> SetResult(st.results, adj.factor_name, u.success)]

RECURSIVE ApplyAll(_, _, _)
ApplyAll(st, adjustments, min_confidence) ==
    IF adjustments = <<>> THEN st
    ELSE ApplyAll(ApplyOne(st, Head(adjustments), min_confidence),
                  Tail(adjustments), min_confidence)

\* apply_weight_adjustments has not been called
NoApplied ==
    [called |-> FALSE, adjustments |-> <<>>, min_confidence |-> 0,
     results |-> <<>>, before_km |-> <<>>, before_overlay |-> NoOverlay]

\* KnowledgeRefiner.apply_weight_adjustments(adjustments, min_confidence);
\* applied keeps the arguments, the map returned and the store before the call
ApplyWeightAdjustments(adjustments, min_confidence) ==
    \E r \in {ApplyAll([km |-> km, overlay |-> overlay, results |-> <<>>],
                       adjustments, min_confidence)} :
    /\ km' = r.km
    /\ overlay' = r.overlay
    /\ applied' = [called |-> TRUE, adjustments |-> adjustments,
                   min_confidence |-> min_confidence, results |-> r.results,
                   before_km |-> km, before_overlay |-> overlay]
    /\ UNCHANGED <<updated, scored>>

-----------------------------------------------------------------------------
(* intelligence/core/scoring.py: the calculations a factor may carry *)

\* the longest calculation, in words
MaxWords == 5

\* the words of the calculations: two columns, the operators of a ratio
\* predicate, a number and a word that is no number
Words == {"x", "y", "/", ">", "0", "n"}

RECURSIVE WordSeqs(_)
WordSeqs(n) ==
    IF n = 0 THEN {<<>>}
    ELSE LET shorter == WordSeqs(n - 1) IN
         shorter \cup {Append(s, w) : s \in {t \in shorter : Len(t) = n - 1},
                                      w \in Words}

\* ScoringFactor(name, description, weight, calculation) of a template
FactorOf(calculation) ==
    [name |-> "f", weight |-> 10, description |-> "d", calculation |-> calculation]

-----------------------------------------------------------------------------
(* intelligence/core/refinement.py: the analyzer *)

MIN_FEEDBACK_FOR_ANALYSIS == 10

\* a feedback row as the analyzer reads it: its type, its rating, the tick of
\* its timestamp and its context (the category and the factors it rates)
NoContext == [given |-> FALSE, category |-> "", factors |-> {}]
ScoringContext(factors) == [given |-> TRUE, category |-> Category, factors |-> factors]
FeedbackRow(id, feedback_type, rating, timestamp, context) ==
    [id |-> id, feedback_type |-> feedback_type, rating |-> rating,
     timestamp |-> timestamp, context |-> context, outcome |-> None]

\* analyze_and_suggest has not been called
NoReport ==
    [made |-> FALSE, days |-> 0, min_confidence |-> 0, feedback_analyzed |-> 0,
     analyzed |-> FALSE, weight_adjustments |-> {}]

\* FeedbackManager.get_summary(days).total_count: the rows of every type
\* whose timestamp is not before now - days
TotalCount(rows, now, days) ==
    Cardinality({r \in rows : r.timestamp >= now - days * TicksPerDay})

\* FeedbackManager.get_feedback(feedback_type=SCORING, limit=1000): no time
\* bound is passed; the tables of the model are shorter than the limit
ScoringFeedback(rows) == {r \in rows : r.feedback_type = "scoring"}

\* factor_feedback[category][factor]: the rows whose context names the pair
RatingsOf(rows, category, factor) ==
    {r \in rows : r.context.given /\ r.context.category = category
                  /\ factor \in r.context.factors}

\* the pairs that factor_feedback holds: rows without context are skipped
RatedPairs(rows) ==
    UNION {{<<r.context.category, f>> : f \in r.context.factors} :
              r \in {q \in rows : q.context.given}}

\* int(x) of the quotient num / den, den > 0: towards zero
Trunc(num, den) == IF num >= 0 THEN num \div den ELSE -((-num) \div den)

\* the weight the analyzer finds for the pair, 0 when there is no such factor
CurrentWeight(factors, category, factor) ==
    IF category = Category /\ IndexOf(factors, factor) # 0
    THEN WeightOf(factors, factor) ELSE 0

\* the WeightAdjustment of one pair; confidence is kept in twentieths
AdjustmentOf(factors, ratings, category, factor) ==
    LET n == Cardinality(ratings)
        negative == Cardinality({r \in ratings : r.rating < 0})
        current_weight == CurrentWeight(factors, category, factor)
    IN [category |-> category, factor_name |-> factor,
        current_weight |-> current_weight,
        suggested_weight |-> Trunc(current_weight * (2 * n - negative), 2 * n),
        confidence |-> IF n < 20 THEN n ELSE 20]

\* _analyze_scoring_feedback: the adjustments it appends to the report
AnalyzeScoringFeedback(rows, factors, min_confidence) ==
    LET scoring_feedback == ScoringFeedback(rows) IN
    {AdjustmentOf(factors, RatingsOf(scoring_feedback, p[1], p[2]), p[1], p[2]) :
        p \in {q \in RatedPairs(scoring_feedback) :
                 LET ratings == RatingsOf(scoring_feedback, q[1], q[2])
                     n == Cardinality(ratings)
                     negative == Cardinality({r \in ratings : r.rating < 0})
                 IN /\ n >= 3
                    /\ 10 * negative > 3 * n
                    /\ (IF n < 20 THEN n ELSE 20) >= min_confidence}}

\* KnowledgeRefiner.analyze_and_suggest(days, min_confidence), min_confidence
\* in twentieths
AnalyzeAndSuggest(days, min_confidence) ==
    \E total \in {TotalCount(feedback, clock, days)} :
    /\ report' = [made |-> TRUE, days |-> days, min_confidence |-> min_confidence,
                  feedback_analyzed |-> total,
                  analyzed |-> total >= MIN_FEEDBACK_FOR_ANALYSIS,
                  weight_adjustments |->
                      IF total < MIN_FEEDBACK_FOR_ANALYSIS THEN {}
                      ELSE AnalyzeScoringFeedback(feedback, km, min_confidence)]
    /\ UNCHANGED <<feedback, fb_next, clock, km, overlay, updated>>

-----------------------------------------------------------------------------
(* intelligence/core/classifier.py *)

\* a question is the sequence of its words; str.lower of a word
LowerWord(w) == IF w = "Ideal" THEN "ideal" ELSE w
QuestionLower(question) == [i \in DOMAIN question |-> LowerWord(question[i])]

\* the keyword lists of classify_simple, each keyword the sequence of its words
StrategicKeywords ==
    {<<"ideal">>, <<"best">>, <<"optimal">>, <<"should", "we">>, <<"recommend">>,
     <<"strategy">>, <<"what", "makes">>, <<"why", "do">>, <<"perfect">>}
SemanticKeywords ==
    {<<"similar">>, <<"like", "this">>, <<"find", "like">>, <<"pattern">>, <<"common">>}

\* ClassificationResult; confidence is kept in tenths
Classification(query_type, needs_sql, needs_semantic, needs_knowledge, confidence) ==
    [query_type |-> query_type, needs_sql |-> needs_sql,
     needs_semantic |-> needs_semantic, needs_knowledge |-> needs_knowledge,
     confidence |-> confidence]

\* classify_simple(question)
ClassifySimple(question) ==
    LET question_lower == QuestionLower(question) IN
    IF \E kw \in StrategicKeywords : Contains(question_lower, kw)
    THEN Classification("strategic", TRUE, TRUE, TRUE, 7)
    ELSE IF \E kw \in SemanticKeywords : Contains(question_lower, kw)
    THEN Classification("semantic", FALSE, TRUE, FALSE, 7)
    ELSE Classification("sql", TRUE, FALSE, FALSE, 7)

\* type_map.get(data.get("query_type", "sql").lower(), SQL_ONLY)
TypeMap(query_type) ==
    IF query_type \in {"sql", "semantic", "strategic", "hybrid"} THEN query_type
    ELSE "sql"

\* _parse_response(response): a reply that is JSON gives its fields, a reply
\* that is not is guessed from the words of its text
ParseResponse(reply) ==
    IF reply.kind = "json"
    THEN Classification(TypeMap(reply.query_type), reply.needs_sql,
                        reply.needs_semantic, reply.needs_knowledge, 8)
    ELSE LET query_type ==
                 IF reply.text \cap {"strategic", "ideal"} # {} THEN "strategic"
                 ELSE IF reply.text \cap {"semantic", "similar"} # {} THEN "semantic"
                 ELSE IF "hybrid" \in reply.text THEN "hybrid"
                 ELSE "sql"
         IN Classification(query_type, query_type \in {"sql", "hybrid"},
                           query_type \in {"semantic", "hybrid"},
                           query_type \in {"strategic", "hybrid"}, 6)

\* the result classify builds in its except branch
DefaultClassification == Classification("sql", TRUE, FALSE, FALSE, 5)

\* classify(question, schema): what it returns when _call_brain gives the
\* reply, or raises
ClassifyOf(question, reply) ==
    IF reply.kind = "raises" THEN DefaultClassification
    ELSE ParseResponse(reply)

\* classify has not been called; the question is the one a caller will ask
NoClassified ==
    [asked |-> FALSE, question |-> <<>>, reply |-> [kind |-> "none"],
     result |-> Classification("", FALSE, FALSE, FALSE, 0)]

\* QuestionClassifier.classify(question, schema) with the caller's question
Classify(reply) ==
    /\ classified' = [classified EXCEPT
                         !.asked = TRUE, !.reply = reply,
                         !.result = ClassifyOf(classified.question, reply)]
    /\ UNCHANGED <<report>>

-----------------------------------------------------------------------------
(* intelligence/api/knowledge.py: PUT /knowledge/scoring/{category}/{factor_name},
   served by the threads of the worker pool *)

\* the requests in flight
Requests == {1, 2}

\* a request that has not started: what it asks for
NewRequest(factor_name, weight) ==
    [pc |-> "start", factor_name |-> factor_name, weight |-> weight,
     km |-> <<>>, status |-> 0]

\* knowledge.json while a save_custom has opened it for writing and has not
\* written yet: the file is empty, and _load_custom ignores it as malformed
Truncated == [exists |-> TRUE, factors |-> <<>>]

\* _get_knowledge_manager(request): a KnowledgeManager of its own for the
\* request, loaded from the template and from the file as it is now
GetKnowledgeManager(p) ==
    /\ requests[p].pc = "start"
    /\ requests' = [requests EXCEPT ![p].pc = "loaded",
                                    ![p].km = LoadManager(TemplateFactors, overlay)]
    /\ UNCHANGED overlay

\* km.update_scoring_factor up to the open(knowledge_path, "w") of
\* save_custom: the factor of the request's manager takes the weight and the
\* file is truncated; an unknown factor is answered with 404
UpdateAndOpen(p) ==
    /\ requests[p].pc = "loaded"
    /\ LET r == requests[p]
           i == IndexOf(r.km, r.factor_name)
       IN IF i = 0
          THEN /\ requests' = [requests EXCEPT ![p].pc = "done", ![p].status = 404]
               /\ UNCHANGED overlay
          ELSE /\ requests' = [requests EXCEPT
                                 ![p].pc = "writing",
                                 ![p].km = Updated(r.km, i, [given |-> TRUE, value |-> r.weight],
                                                   NotGiven)]
               /\ overlay' = Truncated

\* json.dump(custom, f) of save_custom and the response: every factor of the
\* request's manager goes into the file
DumpAndRespond(p) ==
    /\ requests[p].pc = "writing"
    /\ overlay' = SaveCustom(requests[p].km)
    /\ requests' = [requests EXCEPT ![p].pc = "done", ![p].status = 200]

-----------------------------------------------------------------------------
(* intelligence/core/ingest.py, ingest_csv: df.to_sql(if_exists="replace") on
   a connection of its own, seen from the connection of a query. ingest_csv
   opens no transaction and takes no lock; pandas drops the table, creates it
   and loads the rows as three statements, and sqlite3 commits the DROP and the
   CREATE as they run and the INSERTs together. *)

\* no ingest is under way and no query has been made
NoReplace ==
    [pc |-> "idle", name |-> <<>>, error |-> Ok,
     old |-> [exists |-> FALSE, columns |-> <<>>, rows |-> 0],
     new |-> [exists |-> FALSE, columns |-> <<>>, rows |-> 0],
     queried |-> FALSE, during |-> FALSE,
     seen |-> [exists |-> FALSE, columns |-> <<>>, rows |-> 0]]

\* the store without the table
Dropped(st, table_name) == [n \in DOMAIN st \ {table_name} |-> st[n]]

\* ingest_csv up to the DROP TABLE of to_sql: content that does not parse or
\* has no rows raises ValueError; else the table, if there is one, is dropped
BeginReplace(csv_content, table_name) ==
    /\ replace.pc = "idle"
    /\ \E r \in {IngestCsv(csv_content, table_name, store)} :
          IF r.error # Ok
          THEN /\ replace' = [replace EXCEPT !.error = r.error]
               /\ UNCHANGED store
          ELSE /\ replace' = [replace EXCEPT
                                !.pc = "dropped", !.name = table_name, !.error = Ok,
                                !.old = Held(store, table_name),
                                !.new = Held(r.store, table_name)]
               /\ store' = Dropped(store, table_name)

\* to_sql, CREATE TABLE: the table is there with the new columns, without rows
CreateTable ==
    /\ replace.pc = "dropped"
    /\ store' = ToSql(store, replace.name, replace.new.columns, 0)
    /\ replace' = [replace EXCEPT !.pc = "created"]

\* to_sql, the INSERTs and their commit; ingest_csv returns
InsertRows ==
    /\ replace.pc = "created"
    /\ store' = ToSql(store, replace.name, replace.new.columns, replace.new.rows)
    /\ replace' = [replace EXCEPT !.pc = "idle"]

\* SQLEngine.execute("SELECT * FROM <table_name>") on a connection of its
\* own: it sees what is committed, or raises for a table that is not there
QueryTable(table_name) ==
    /\ replace' = [replace EXCEPT
                     !.queried = TRUE,
                     !.during = replace.pc # "idle" /\ replace.name = table_name,
                     !.seen = Held(store, table_name)]
    /\ UNCHANGED store

-----------------------------------------------------------------------------
(* intelligence/core/vector_engine.py, embed_records: the entries of one
   collection *)

\* the most times the batch is embedded
MaxEmbeds == 2

\* the hash seeds a process may start with (PYTHONHASHSEED is random unless
\* the environment fixes it)
Seeds == {1, 2}

\* str(record.get(id_field, hash(json.dumps(record, default=str)))): the value
\* of the id field, or for a record without that field the hash of its text,
\* which is salted with the seed of the process
RecordId(record, seed) ==
    IF record.has_id THEN <<"id", record.id>>
    ELSE <<"hash", seed, record.body>>

\* collection.upsert(ids, documents, metadatas): an entry per id, the entry of
\* an id that is there already is overwritten
Upsert(entries, records, seed) ==
    LET ids == {RecordId(r, seed) : r \in records} IN
    [i \in DOMAIN entries \cup ids |->
        IF i \in ids THEN (CHOOSE r \in records : RecordId(r, seed) = i).body
        ELSE entries[i]]

\* nothing has been embedded; the batch is the one a caller will embed
NoVectors ==
    [seed |-> 1, batch |-> {}, count |-> 0, entries |-> <<>>, first |-> <<>>]

\* VectorEngine.embed_records(table_name, records, id_field) with the batch;
\* first keeps the entries the first call left
EmbedBatch ==
    /\ vectors.count < MaxEmbeds
    /\ vectors.batch # {}
    /\ \E after \in {Upsert(vectors.entries, vectors.batch, vectors.seed)} :
          vectors' = [vectors EXCEPT
                        !.entries = after,
                        !.count = @ + 1,
                        !.first = IF vectors.count = 0 THEN after ELSE @]

\* the service is started again: a new python process, a new hash seed; the
\* persistent collection stays
NewProcess ==
    \E seed \in Seeds : vectors' = [vectors EXCEPT !.seed = seed]

-----------------------------------------------------------------------------
(* intelligence/core/insights.py, _analyze_inventory_aging *)

\* the most rows of a table that hold the same days_on_lot
MaxAging == 3

\* the days_on_lot of the rows that hold a number
AgingValues == {30, 60, 61, 90, 91}

RECURSIVE SumCounts(_, _)
SumCounts(counts, S) ==
    IF S = {} THEN 0
    ELSE LET v == CHOOSE x \in S : TRUE IN counts[v] + SumCounts(counts, S \ {v})

\* SUM(CASE WHEN <test> THEN 1 ELSE 0 END) over a table that holds
\* rows.days[v] rows of value v and rows.nulls rows of NULL; a comparison
\* with NULL is not true, so those rows count 0
CountWhere(rows, Test(_)) == SumCounts(rows.days, {v \in AgingValues : Test(v)})

\* COUNT(*)
CountAll(rows) == SumCounts(rows.days, AgingValues) + rows.nulls

IsFresh(v) == v <= 30
IsStale(v) == v > 60 /\ v <= 90
IsCritical(v) == v > 90

\* the insights _analyze_inventory_aging appends for the table: each is the
\* pair of its type and its priority
AgingInsights(rows) ==
    LET total == CountAll(rows)
        fresh == CountWhere(rows, IsFresh)
        stale == CountWhere(rows, IsStale)
        critical == CountWhere(rows, IsCritical)
    IN IF total = 0 THEN {}
       ELSE (IF 10 * critical > total THEN {<<"risk", "high">>}
             ELSE IF 100 * stale > 15 * total THEN {<<"risk", "medium">>}
             ELSE {})
            \cup (IF 10 * fresh > 7 * total THEN {<<"opportunity", "low">>} ELSE {})

\* no table has been analyzed; rows is the table that will be
NoInsights ==
    [made |-> FALSE, rows |-> [days |-> [v \in AgingValues |-> 0], nulls |-> 0],
     insights |-> {}]

\* InsightGenerator._analyze_inventory_aging(conn, table_name, report) on a
\* table that has the column days_on_lot
AnalyzeInventoryAging ==
    /\ aging' = [aging EXCEPT !.made = TRUE, !.insights = AgingInsights(aging.rows)]

-----------------------------------------------------------------------------
(* intelligence/core/audit.py, purge_old_logs: what a call returns *)

\* purge_old_logs has not been called
NoPurge == [called |-> FALSE, days |-> 0, now |-> 0, before |-> {}, count |-> 0]

\* purge_old_logs(days) with its return value, cursor.rowcount of the DELETE;
\* purged keeps the arguments, the time and the log before the call
Purge(days) ==
    /\ PurgeOldLogs(days)
    /\ purged' = [called |-> TRUE, days |-> days, now |-> clock,
                  before |-> audit_log,
                  count |-> Cardinality(audit_log \ audit_log')]
-----------------------------------------------------------------------------
(* The SQL engine on its own *)

InitSql ==
    /\ sql_in \in SqlTexts
    /\ tables = {TableT}
    /\ last_exec = NoExec
    /\ outcome = NoOutcome

IdleSql ==
    /\ sql_in = <<>>
    /\ tables = {TableT}
    /\ last_exec = NoExec
    /\ outcome = NoOutcome

IdleApi == resp = NoResp /\ req_id = 0 /\ audit_enabled = TRUE /\ collections = {}
IdleAudit == audit_log = {} /\ next_id = 1 /\ clock = 0
IdleFeedback == feedback = {} /\ fb_next = 1
IdleQuery == q_result = NoQuery
IdleExport ==
    /\ csv_file = NoCsv /\ sig_file = NoSig /\ meta_file = NoMeta
    /\ exported = NoExport /\ verify = NoVerify
IdleKnowledge == km = <<>> /\ overlay = NoOverlay /\ updated = <<>>
IdleScore == scored = NoScore
IdleNames == naming = NoNaming
IdleStore == store = <<>> /\ ingest = NoIngest
IdleAsk == answer = NoAnswer
IdleRefine == applied = NoApplied
IdleLater ==
    /\ report = NoReport /\ classified = NoClassified /\ requests = <<>>
    /\ replace = NoReplace /\ vectors = NoVectors /\ aging = NoInsights /\ purged = NoPurge

InitEngine ==
    /\ InitSql
    /\ IdleApi /\ IdleAudit /\ IdleFeedback /\ IdleQuery /\ IdleExport
    /\ IdleKnowledge /\ IdleScore
    /\ IdleNames /\ IdleStore /\ IdleAsk /\ IdleRefine
    /\ IdleLater

NextEngine ==
    /\ \/ \E safe \in BOOLEAN : Execute(safe)
       \/ ScoreQuery
       \/ Reingest
    /\ UNCHANGED <<apiVars, auditVars, feedbackVars, queryVars, exportVars,
                   knowledgeVars, scoreVars>>
    /\ UNCHANGED <<nameVars, storeVars, askVars, refineVars>>
    /\ UNCHANGED laterVars

SpecEngine == InitEngine /\ [][NextEngine]_vars


-----------------------------------------------------------------------------
(* The audit log and the feedback store *)

PurgeDays == {0, 1}
Limits == {1, DefaultLimit}

\* a time bound a caller may pass to get_events
TimeBounds == {NoTime} \cup {[given |-> TRUE, at |-> ts] : ts \in Timestamps}

InitAudit ==
    /\ IdleSql /\ IdleApi /\ IdleAudit /\ IdleFeedback /\ IdleQuery /\ IdleExport
    /\ IdleKnowledge /\ IdleScore
    /\ IdleNames /\ IdleStore /\ IdleAsk /\ IdleRefine
    /\ IdleLater

NextAudit ==
    /\ \/ \E ts \in Timestamps : Log(SomeEvent(ts))
       \/ Tick
       \/ \E days \in PurgeDays : PurgeOldLogs(days)
       \/ GetEvents
       \/ \E rating \in Ratings : SubmitFeedback(rating)
       \/ \E id \in 1..MaxFeedback, o \in Outcomes : RecordOutcome(id, o)
    /\ UNCHANGED <<sqlVars, apiVars, exportVars, knowledgeVars, scoreVars>>
    /\ UNCHANGED <<nameVars, storeVars, askVars, refineVars>>
    /\ UNCHANGED laterVars

SpecAudit == InitAudit /\ [][NextAudit]_vars

\* the audit log queried with time bounds
InitAuditQuery ==
    /\ IdleSql /\ IdleApi /\ IdleAudit /\ IdleFeedback /\ IdleExport
    /\ IdleKnowledge /\ IdleScore
    /\ IdleNames /\ IdleStore /\ IdleAsk /\ IdleRefine
    /\ q_result \in {[NoQuery EXCEPT !.start = s, !.end = e, !.limit = l] :
                        s \in TimeBounds, e \in TimeBounds, l \in Limits}
    /\ IdleLater

NextAuditQuery ==
    /\ \/ \E ts \in Timestamps : Log(SomeEvent(ts))
       \/ GetEvents
    /\ UNCHANGED <<sqlVars, apiVars, exportVars, knowledgeVars, scoreVars>>
    /\ UNCHANGED <<nameVars, storeVars, askVars, refineVars>>
    /\ UNCHANGED laterVars

SpecAuditQuery == InitAuditQuery /\ [][NextAuditQuery]_vars

-----------------------------------------------------------------------------
(* The HTTP handlers *)

InitApi ==
    /\ IdleSql /\ IdleAudit /\ IdleFeedback /\ IdleQuery /\ IdleExport
    /\ IdleKnowledge /\ IdleScore
    /\ IdleNames /\ IdleStore /\ IdleAsk /\ IdleRefine
    /\ resp = NoResp
    /\ req_id = 0
    /\ audit_enabled \in BOOLEAN
    /\ collections \in {{}, {TableT}}
    /\ IdleLater

NextApi ==
    /\ \/ \E sql \in ApiStatements, fails \in Failures : SqlRequest(sql, fails)
       \/ \E arg \in {"answers", "raises"}, fails \in Failures : AskRequest(arg, fails)
       \/ \E arg \in {"record", "query", "neither"}, fails \in Failures :
             SimilarRequest(arg, fails)
       \/ \E arg \in {"rows", "empty", "notcsv"} : UploadRequest(arg)
       \/ DeleteRequest
    /\ UNCHANGED <<feedbackVars, queryVars, exportVars, knowledgeVars, scoreVars>>
    /\ UNCHANGED <<nameVars, storeVars, askVars, refineVars>>
    /\ UNCHANGED laterVars

SpecApi == InitApi /\ [][NextApi]_vars

-----------------------------------------------------------------------------
(* The signed export of the audit log *)

\* the audit logs an export is taken of
ExportLogs ==
    LET first == AuditRow(1, SomeEvent([wall |-> 0, aware |-> FALSE, off |-> 0]))
        second == AuditRow(2, SomeEvent([wall |-> 1, aware |-> FALSE, off |-> 0]))
    IN {{}, {first}, {first, second}}

\* the date ranges of the exports
ExportRanges ==
    {<<[given |-> TRUE, at |-> [wall |-> 0, aware |-> FALSE, off |-> 0]],
       [given |-> TRUE, at |-> [wall |-> w, aware |-> FALSE, off |-> 0]]>> : w \in {0, 1}}

InitExport ==
    /\ IdleSql /\ IdleApi /\ IdleFeedback /\ IdleQuery /\ IdleExport
    /\ IdleKnowledge /\ IdleScore
    /\ IdleNames /\ IdleStore /\ IdleAsk /\ IdleRefine
    /\ audit_log \in ExportLogs
    /\ next_id = Cardinality(audit_log) + 1
    /\ clock = 0
    /\ IdleLater

NextExport ==
    /\ \/ \E range \in ExportRanges : ExportCsv(range[1], range[2])
       \/ VerifyExport
       \/ EditCsv
       \/ EditMeta
       \/ EditSig
    /\ UNCHANGED <<sqlVars, apiVars, auditVars, feedbackVars, queryVars,
                   knowledgeVars, scoreVars>>
    /\ UNCHANGED <<nameVars, storeVars, askVars, refineVars>>
    /\ UNCHANGED laterVars

SpecExport == InitExport /\ [][NextExport]_vars

-----------------------------------------------------------------------------
(* The knowledge store and the scorer *)

\* a factor somebody added to knowledge.json
CustomFactor ==
    [name |-> "margin", weight |-> 5, description |-> "d",
     calculation |-> <<"x", "/", "y", ">", "0">>]

\* the weights and names callers pass
Weights == {NotGiven} \cup {[given |-> TRUE, value |-> w] : w \in {-5, 0, 10}}
Descriptions == {NotGiven, [given |-> TRUE, value |-> 0]}
FactorNames == {"has_x", "y_min", "margin"}

InitKnowledge ==
    /\ IdleSql /\ IdleApi /\ IdleAudit /\ IdleFeedback /\ IdleQuery /\ IdleExport
    /\ IdleScore
    /\ IdleNames /\ IdleStore /\ IdleAsk /\ IdleRefine
    /\ overlay \in {NoOverlay, [exists |-> TRUE, factors |-> <<CustomFactor>>]}
    /\ km = LoadManager(TemplateFactors, overlay)
    /\ updated = [n \in FactorNames |-> [set |-> FALSE, weight |-> 0]]
    /\ IdleLater

NextKnowledge ==
    /\ \/ \E category \in {Category, "other"}, name \in FactorNames,
             weight \in Weights, description \in Descriptions :
             UpdateScoringFactor(category, name, weight, description)
       \/ Restart
       \/ \E record \in Records : ScoreRecord(record)
    /\ UNCHANGED <<sqlVars, apiVars, auditVars, feedbackVars, queryVars, exportVars>>
    /\ UNCHANGED <<nameVars, storeVars, askVars, refineVars>>
    /\ UNCHANGED laterVars

SpecKnowledge == InitKnowledge /\ [][NextKnowledge]_vars

-----------------------------------------------------------------------------
(* The table-name functions *)

InitNames ==
    /\ IdleSql /\ IdleApi /\ IdleAudit /\ IdleFeedback /\ IdleQuery /\ IdleExport
    /\ IdleKnowledge /\ IdleScore /\ IdleStore /\ IdleAsk /\ IdleRefine
    /\ naming \in {[NoNaming EXCEPT !.name = n] : n \in Names}
    /\ IdleLater

NextNames ==
    /\ \/ Sanitize
       \/ Validate
       \/ Quote
    /\ UNCHANGED <<sqlVars, apiVars, auditVars, feedbackVars, queryVars, exportVars,
                   knowledgeVars, scoreVars, storeVars, askVars, refineVars>>
    /\ UNCHANGED laterVars

SpecNames == InitNames /\ [][NextNames]_vars

-----------------------------------------------------------------------------
(* The data store: ingestion, deletion, the vector collections *)

\* the table names callers pass, and the files they upload
StoreNames == {<<"t">>, <<"o", "r">>}
Files == {[stem |-> <<"T", " ", "1">>, csv |-> c] : c \in BOOLEAN}

InitStore ==
    /\ IdleSql /\ IdleAudit /\ IdleFeedback /\ IdleQuery /\ IdleExport
    /\ IdleKnowledge /\ IdleScore /\ IdleNames /\ IdleAsk /\ IdleRefine
    /\ resp = NoResp /\ req_id = 0 /\ audit_enabled = TRUE
    /\ collections = {}
    /\ store = <<>>
    /\ ingest = NoIngest
    /\ IdleLater

NextStore ==
    /\ \/ \E csv_content \in Csvs, table_name \in StoreNames :
             Ingest(csv_content, table_name)
       \/ \E file \in Files, table_name \in StoreNames \cup {<<>>},
             csv_content \in Csvs : Upload(file, table_name, csv_content)
       \/ \E table_name \in StoreNames : Delete(table_name)
       \/ \E table_name \in StoreNames : ScoreTable(table_name)
       \/ \E table_name \in StoreNames : EmbedRecords(table_name)
       \/ \E table_name \in StoreNames : SearchSimilar(table_name)
       \/ \E table_name \in StoreNames : DeleteCollection(table_name)
    /\ UNCHANGED <<sqlVars, resp, req_id, audit_enabled, auditVars, feedbackVars,
                   queryVars, exportVars, knowledgeVars, scoreVars, nameVars,
                   askVars, refineVars>>
    /\ UNCHANGED laterVars

SpecStore == InitStore /\ [][NextStore]_vars

-----------------------------------------------------------------------------
(* The orchestrator *)

InitAsk ==
    /\ IdleSql /\ IdleApi /\ IdleAudit /\ IdleFeedback /\ IdleQuery /\ IdleExport
    /\ IdleKnowledge /\ IdleScore /\ IdleNames /\ IdleStore /\ IdleRefine
    /\ answer = NoAnswer
    /\ IdleLater

NextAsk ==
    /\ \E classification \in Classifications, does \in Behaviours :
          Ask(classification, does)
    /\ UNCHANGED <<sqlVars, apiVars, auditVars, feedbackVars, queryVars, exportVars,
                   knowledgeVars, scoreVars, nameVars, storeVars, refineVars>>
    /\ UNCHANGED laterVars

SpecAsk == InitAsk /\ [][NextAsk]_vars

-----------------------------------------------------------------------------
(* The refiner on the knowledge store *)

\* confidences in tenths, the floor, and the proposals callers pass
Confidences == {6, 7}
Floors == {7}
Adjustments ==
    [category : {Category, "other"}, factor_name : {"has_x", "margin"},
     suggested_weight : {3}, confidence : Confidences]
RECURSIVE AdjustmentLists(_)
AdjustmentLists(n) ==
    IF n = 0 THEN {<<>>}
    ELSE LET shorter == AdjustmentLists(n - 1) IN
         shorter \cup {Append(s, a) : s \in {t \in shorter : Len(t) = n - 1},
                                      a \in Adjustments}

InitRefine ==
    /\ IdleSql /\ IdleApi /\ IdleAudit /\ IdleFeedback /\ IdleQuery /\ IdleExport
    /\ IdleScore /\ IdleNames /\ IdleStore /\ IdleAsk
    /\ overlay \in {NoOverlay, [exists |-> TRUE, factors |-> <<CustomFactor>>]}
    /\ km = LoadManager(TemplateFactors, overlay)
    /\ updated = [n \in FactorNames |-> [set |-> FALSE, weight |-> 0]]
    /\ applied = NoApplied
    /\ IdleLater

NextRefine ==
    /\ \/ \E adjustments \in AdjustmentLists(MaxAdjustments), min_confidence \in Floors :
             ApplyWeightAdjustments(adjustments, min_confidence)
       \/ Restart /\ UNCHANGED applied
    /\ UNCHANGED <<sqlVars, apiVars, auditVars, feedbackVars, queryVars, exportVars,
                   nameVars, storeVars, askVars>>
    /\ UNCHANGED laterVars

SpecRefine == InitRefine /\ [][NextRefine]_vars

-----------------------------------------------------------------------------
(* The scorer on one factor of any calculation *)

InitEvaluate ==
    /\ IdleSql /\ IdleApi /\ IdleAudit /\ IdleFeedback /\ IdleQuery /\ IdleExport
    /\ IdleScore /\ IdleNames /\ IdleStore /\ IdleAsk /\ IdleRefine
    /\ km \in {<<FactorOf(c)>> : c \in WordSeqs(MaxWords)}
    /\ overlay = NoOverlay
    /\ updated = <<>>
    /\ IdleLater

NextEvaluate ==
    /\ \E record \in Records : ScoreRecord(record)
    /\ UNCHANGED <<sqlVars, apiVars, auditVars, feedbackVars, queryVars, exportVars,
                   nameVars, storeVars, askVars, refineVars>>
    /\ UNCHANGED laterVars

SpecEvaluate == InitEvaluate /\ [][NextEvaluate]_vars

-----------------------------------------------------------------------------
(* The analyzer on a feedback table *)

\* how many rows of one kind a feedback table holds
RatingCounts == {0, 1, 3, 9, 10}

\* the tick of the analysis, of a row inside the window and of one before it
AnalysisTick == 2 * TicksPerDay
OldTick == 0

\* the rows of a table that holds, about the factor has_x, recent negative,
\* recent positive and old negative scoring ratings, and recent feedback of
\* another type
TableOf(neg, pos, old, other) ==
    {FeedbackRow(i, "scoring", -1, AnalysisTick, ScoringContext({"has_x"})) :
        i \in 1..neg}
    \cup {FeedbackRow(neg + i, "scoring", 1, AnalysisTick, ScoringContext({"has_x"})) :
        i \in 1..pos}
    \cup {FeedbackRow(neg + pos + i, "scoring", -1, OldTick, ScoringContext({"has_x"})) :
        i \in 1..old}
    \cup {FeedbackRow(neg + pos + old + i, "query_result", 1, AnalysisTick, NoContext) :
        i \in 1..other}

\* min_confidence in twentieths: 0, and the default 0.5
MinConfidences == {0, 10}

InitAnalyze ==
    /\ IdleSql /\ IdleApi /\ IdleQuery /\ IdleExport
    /\ IdleScore /\ IdleNames /\ IdleStore /\ IdleAsk /\ IdleRefine
    /\ audit_log = {} /\ next_id = 1 /\ clock = AnalysisTick
    /\ feedback \in {TableOf(neg, pos, old, other) :
                        neg \in RatingCounts, pos \in RatingCounts,
                        old \in RatingCounts, other \in RatingCounts}
    /\ fb_next = Cardinality(feedback) + 1
    /\ overlay = NoOverlay
    /\ km = LoadManager(TemplateFactors, overlay)
    /\ updated = <<>>
    /\ report = NoReport /\ classified = NoClassified /\ requests = <<>>
    /\ replace = NoReplace /\ vectors = NoVectors /\ aging = NoInsights /\ purged = NoPurge

NextAnalyze ==
    /\ \E min_confidence \in MinConfidences : AnalyzeAndSuggest(1, min_confidence)
    /\ UNCHANGED <<sqlVars, apiVars, audit_log, next_id, queryVars, exportVars,
                   scoreVars, nameVars, storeVars, askVars, refineVars, classified,
                   requests, replace, vectors,
                   aging, purged>>

SpecAnalyze == InitAnalyze /\ [][NextAnalyze]_vars

-----------------------------------------------------------------------------
(* The classifier *)

\* the questions asked: up to two of these words
QuestionWords == {"how", "many", "Ideal", "best", "similar", "like", "this"}
Questions ==
    {<<>>} \cup {<<w>> : w \in QuestionWords}
    \cup {<<v, w>> : v \in QuestionWords, w \in QuestionWords}

\* what _call_brain does: it raises (no connection, timeout, HTTP error, a
\* body without choices), or returns JSON, or returns text that is no JSON
BrainReplies ==
    {[kind |-> "raises"]}
    \cup [kind : {"json"}, query_type : {"sql", "semantic", "strategic", "hybrid", "other"},
          needs_sql : BOOLEAN, needs_semantic : BOOLEAN, needs_knowledge : BOOLEAN]
    \cup [kind : {"text"}, text : SUBSET {"ideal", "similar", "hybrid"}]

InitClassify ==
    /\ IdleSql /\ IdleApi /\ IdleAudit /\ IdleFeedback /\ IdleQuery /\ IdleExport
    /\ IdleKnowledge /\ IdleScore /\ IdleNames /\ IdleStore /\ IdleAsk /\ IdleRefine
    /\ report = NoReport /\ requests = <<>> /\ replace = NoReplace
    /\ vectors = NoVectors /\ aging = NoInsights /\ purged = NoPurge
    /\ classified \in {[NoClassified EXCEPT !.question = q] : q \in Questions}

NextClassify ==
    /\ \E reply \in BrainReplies : Classify(reply)
    /\ UNCHANGED <<sqlVars, apiVars, auditVars, feedbackVars, queryVars, exportVars,
                   knowledgeVars, scoreVars, nameVars, storeVars, askVars, refineVars,
                   requests, replace, vectors,
                   aging, purged>>

SpecClassify == InitClassify /\ [][NextClassify]_vars

-----------------------------------------------------------------------------
(* Two knowledge updates at once *)

\* the weights the two requests carry
RequestWeights == {1, 2, 3}

InitConcurrent ==
    /\ IdleSql /\ IdleApi /\ IdleAudit /\ IdleFeedback /\ IdleQuery /\ IdleExport
    /\ IdleScore /\ IdleNames /\ IdleStore /\ IdleAsk /\ IdleRefine
    /\ report = NoReport /\ classified = NoClassified /\ replace = NoReplace
    /\ vectors = NoVectors /\ aging = NoInsights /\ purged = NoPurge
    /\ overlay \in {NoOverlay, [exists |-> TRUE, factors |-> <<CustomFactor>>]}
    /\ km = <<>>
    /\ updated = <<>>
    /\ requests \in {[p \in Requests |->
                         NewRequest(IF p = 1 THEN "has_x" ELSE second, IF p = 1 THEN v ELSE w)] :
                        second \in {"y_min", "margin"}, v \in RequestWeights,
                        w \in RequestWeights}

NextConcurrent ==
    /\ \E p \in Requests :
          \/ GetKnowledgeManager(p)
          \/ UpdateAndOpen(p)
          \/ DumpAndRespond(p)
    /\ UNCHANGED <<sqlVars, apiVars, auditVars, feedbackVars, queryVars, exportVars,
                   km, updated, scoreVars, nameVars, storeVars, askVars, refineVars,
                   report, classified, replace, vectors,
                   aging, purged>>

SpecConcurrent == InitConcurrent /\ [][NextConcurrent]_vars

-----------------------------------------------------------------------------
(* A query while a table is ingested again *)

\* CSV content that ingest_csv takes
GoodCsvs == {c \in Csvs : c.parsed /\ c.rows > 0}

InitReplace ==
    /\ IdleSql /\ IdleApi /\ IdleAudit /\ IdleFeedback /\ IdleQuery /\ IdleExport
    /\ IdleKnowledge /\ IdleScore /\ IdleNames /\ IdleAsk /\ IdleRefine
    /\ report = NoReport /\ classified = NoClassified /\ requests = <<>>
    /\ store \in {<<>>} \cup {IngestCsv(c, n, <<>>).store : c \in GoodCsvs, n \in StoreNames}
    /\ ingest = NoIngest
    /\ replace = NoReplace /\ vectors = NoVectors /\ aging = NoInsights /\ purged = NoPurge

NextReplace ==
    /\ \/ \E csv_content \in Csvs, table_name \in StoreNames :
             BeginReplace(csv_content, table_name)
       \/ CreateTable
       \/ InsertRows
       \/ \E table_name \in StoreNames : QueryTable(table_name)
    /\ UNCHANGED <<sqlVars, apiVars, auditVars, feedbackVars, queryVars, exportVars,
                   knowledgeVars, scoreVars, nameVars, ingest, askVars, refineVars,
                   report, classified, requests, vectors,
                   aging, purged>>

SpecReplace == InitReplace /\ [][NextReplace]_vars

-----------------------------------------------------------------------------
(* Embedding a batch again *)

\* the records of the batches: with the id field or without it
VectorRecords ==
    [has_id : {TRUE}, id : {1, 2}, body : {"a", "b"}]
    \cup [has_id : {FALSE}, id : {0}, body : {"a", "b"}]

\* the batches: records that differ, and no two with the same id
Batches ==
    {b \in SUBSET VectorRecords :
        /\ b # {}
        /\ \A r \in b, q \in b : (r.has_id /\ q.has_id /\ r.id = q.id) => r = q}

InitVectors ==
    /\ IdleSql /\ IdleApi /\ IdleAudit /\ IdleFeedback /\ IdleQuery /\ IdleExport
    /\ IdleKnowledge /\ IdleScore /\ IdleNames /\ IdleStore /\ IdleAsk /\ IdleRefine
    /\ report = NoReport /\ classified = NoClassified /\ requests = <<>>
    /\ replace = NoReplace /\ aging = NoInsights /\ purged = NoPurge
    /\ vectors \in {[NoVectors EXCEPT !.batch = b, !.seed = s] : b \in Batches, s \in Seeds}

NextVectors ==
    /\ \/ EmbedBatch
       \/ NewProcess
    /\ UNCHANGED <<sqlVars, apiVars, auditVars, feedbackVars, queryVars, exportVars,
                   knowledgeVars, scoreVars, nameVars, storeVars, askVars, refineVars,
                   report, classified, requests, replace,
                   aging, purged>>

SpecVectors == InitVectors /\ [][NextVectors]_vars

-----------------------------------------------------------------------------
(* The aging insights of a table *)

\* the tables: how many rows hold each value of days_on_lot, how many NULL
AgingTables == [days : [AgingValues -> 0..MaxAging], nulls : 0..MaxAging]

InitInsights ==
    /\ IdleSql /\ IdleApi /\ IdleAudit /\ IdleFeedback /\ IdleQuery /\ IdleExport
    /\ IdleKnowledge /\ IdleScore /\ IdleNames /\ IdleStore /\ IdleAsk /\ IdleRefine
    /\ report = NoReport /\ classified = NoClassified /\ requests = <<>>
    /\ replace = NoReplace /\ vectors = NoVectors /\ purged = NoPurge
    /\ aging \in {[NoInsights EXCEPT !.rows = t] : t \in AgingTables}

NextInsights ==
    /\ AnalyzeInventoryAging
    /\ UNCHANGED <<sqlVars, apiVars, auditVars, feedbackVars, queryVars, exportVars,
                   knowledgeVars, scoreVars, nameVars, storeVars, askVars, refineVars,
                   report, classified, requests, replace, vectors, purged>>

SpecInsights == InitInsights /\ [][NextInsights]_vars

-----------------------------------------------------------------------------
(* Purging the audit log *)

InitPurge ==
    /\ IdleSql /\ IdleApi /\ IdleAudit /\ IdleFeedback /\ IdleQuery /\ IdleExport
    /\ IdleKnowledge /\ IdleScore
    /\ IdleNames /\ IdleStore /\ IdleAsk /\ IdleRefine
    /\ report = NoReport /\ classified = NoClassified /\ requests = <<>>
    /\ replace = NoReplace /\ vectors = NoVectors /\ aging = NoInsights
    /\ purged = NoPurge

NextPurge ==
    /\ \/ \E ts \in Timestamps : Log(SomeEvent(ts)) /\ UNCHANGED purged
       \/ Tick /\ UNCHANGED purged
       \/ \E days \in PurgeDays : Purge(days)
    /\ UNCHANGED <<sqlVars, apiVars, exportVars, knowledgeVars, scoreVars,
                   nameVars, storeVars, askVars, refineVars,
                   report, classified, requests, replace, vectors, aging>>

SpecPurge == InitPurge /\ [][NextPurge]_vars
-----------------------------------------------------------------------------
(* C1 *)

\* the maximal runs of word characters of s, as pairs of positions
WordRuns(s) ==
    {p \in (1..Len(s)) \X (1..Len(s)) :
        /\ p[1] <= p[2]
        /\ \A k \in p[1]..p[2] : IsWordChar(s[k])
        /\ p[1] = 1 \/ ~IsWordChar(s[p[1] - 1])
        /\ p[2] = Len(s) \/ ~IsWordChar(s[p[2] + 1])}

ForbiddenWords == {DangerousKeywords[k] : k \in 1..Len(DangerousKeywords)}

\* s is a single comment-free SELECT statement without a write keyword
SafeShape(s) ==
    /\ Len(s) >= 6
    /\ \A k \in 1..6 : UpperChar(s[k]) = KwSelect[k]
    /\ \A p \in WordRuns(s) : Upper(SubSeq(s, p[1], p[2])) \notin ForbiddenWords
    /\ \A i \in 1..(Len(s) - 1) :
          /\ ~(s[i] = "-" /\ s[i + 1] = "-")
          /\ ~(s[i] = "/" /\ s[i + 1] = "*")
    /\ \A i \in 1..Len(s) : s[i] = ";" => \A j \in i..Len(s) : s[j] = ";"

\* C1: in safe mode a statement reaches sqlite only if it is a single,
\* comment-free SELECT without a write keyword; every other statement given
\* to execute in safe mode raises UnsafeQueryError and nothing is executed.
C1_SafeGate ==
    /\ (last_exec.ran /\ last_exec.safe) => SafeShape(last_exec.sql)
    /\ (outcome.error # "idle" /\ outcome.safe /\ ~SafeShape(Strip(outcome.sql)))
          => (outcome.error = "UnsafeQueryError" /\ ~last_exec.ran)

\* a SELECT passed the gate and returned rows
C1_Witness ==
    /\ last_exec.ran /\ last_exec.safe
    /\ outcome.error = None /\ outcome.rows


-----------------------------------------------------------------------------
(* C2 *)

\* C2: a POST /query/sql whose statement the validator rejects is answered
\* with 400 and a reason that mentions SELECT, never with a 5xx, and the
\* statement is not executed on the store.
C2_RejectedIs400 ==
    (resp.endpoint = "sql" /\ ValidateSqlQuery(Strip(resp.sql), FALSE) # Ok)
        => /\ resp.status = 400
           /\ \E i \in DOMAIN resp.detail : resp.detail[i] = "SELECT"
           /\ ~last_exec.ran

-----------------------------------------------------------------------------
(* C3 *)

\* C3: verify_export reports hash_valid and signature_valid both true if and
\* only if neither the exported CSV nor its metadata file has been modified
\* since the export was written.
C3_ValidIffUnmodified ==
    (exported.done /\ verify.error = None)
        => ((verify.hash_valid /\ verify.signature_valid)
              <=> (csv_file = exported.csv /\ meta_file = exported.meta))

-----------------------------------------------------------------------------
(* C4 *)

\* C4: once the bytes of an exported CSV differ from what was exported,
\* verify_export returns signature_valid = false and tampered = true, and
\* hash_valid = false against the csv_hash the export wrote into the metadata.
C4_EditedCsvDetected ==
    (exported.done /\ verify.error = None /\ csv_file.lines # exported.csv.lines)
        => /\ ~verify.signature_valid
           /\ verify.tampered
           /\ meta_file.csv_hash = exported.meta.csv_hash => ~verify.hash_valid

\* a line was appended to the exported CSV, nothing else was touched, and
\* verify_export has reported
C4_Witness ==
    /\ exported.done /\ verify.error = None
    /\ csv_file.lines = Append(exported.csv.lines, ForgedLine)
    /\ sig_file = exported.sig /\ meta_file = exported.meta
    /\ ~verify.hash_valid /\ ~verify.signature_valid /\ verify.tampered

-----------------------------------------------------------------------------
(* C5 *)

\* C5: no step changes the fields of an existing audit row, whichever
\* operation of the audit log or of the feedback store takes it (recording a
\* feedback outcome changes feedback rows only), and a row leaves the log only
\* in a step of purge_old_logs.
C5_AuditRowsImmutable ==
    [][/\ \A r \in audit_log : (\E n \in audit_log' : n.id = r.id) => r \in audit_log'
       /\ (\E r \in audit_log : r \notin audit_log')
             => \E days \in PurgeDays : PurgeOldLogs(days)
       /\ (\E id \in 1..MaxFeedback, o \in Outcomes : RecordOutcome(id, o))
             => audit_log' = audit_log]_vars

\* an outcome was recorded on a feedback row while the audit log holds a row
\* with the same id
C5_Witness ==
    \E f \in feedback : f.outcome # None /\ \E r \in audit_log : r.id = f.id

-----------------------------------------------------------------------------
(* C6 *)

\* the instant of an aware datetime
Instant(dt) == dt.wall - dt.off

\* a is not later than b, for two datetimes Python can compare
NotLater(a, b) ==
    /\ a.aware = b.aware
    /\ IF a.aware THEN Instant(a) <= Instant(b) ELSE a.wall <= b.wall

\* C6: after log(e), get_events with a time filter whose bounds include e's
\* timestamp returns e (when the limit does not cut the result short), and
\* get_events with a start bound later than e's timestamp does not return e.
C6_TimeFilter ==
    q_result.valid =>
        \A r \in audit_log :
            LET ts == FromIso(r.timestamp)
                start == q_result.start
                end == q_result.end
                inside == /\ start.given \/ end.given
                          /\ start.given => NotLater(start.at, ts)
                          /\ end.given => NotLater(ts, end.at)
                after == /\ start.given
                         /\ start.at.aware = ts.aware
                         /\ ~NotLater(start.at, ts)
            IN /\ (inside /\ Cardinality(audit_log) <= q_result.limit)
                     => r \in q_result.rows
               /\ after => r \notin q_result.rows

-----------------------------------------------------------------------------
(* C7 *)

AuditedEndpoints == {"upload", "delete", "sql", "ask", "similar"}

\* the event type, action and resource of the audit event of a request
ExpectedEvent(endpoint) ==
    CASE endpoint = "upload" ->
            [event_type |-> "data_upload", action |-> "upload_csv", resource |-> "t"]
      [] endpoint = "delete" ->
            [event_type |-> "data_delete", action |-> "delete_table", resource |-> "t"]
      [] endpoint = "sql" ->
            [event_type |-> "query_sql", action |-> "execute_sql", resource |-> "query"]
      [] endpoint = "ask" ->
            [event_type |-> "query_natural", action |-> "ask_question", resource |-> "query"]
      [] endpoint = "similar" ->
            [event_type |-> "query_semantic", action |-> "find_similar", resource |-> "query"]

\* C7: when auditing is enabled and the audit database takes writes, every
\* request that uploaded a CSV, deleted a table or ran a query (it is answered
\* with 200) has put an audit event of the matching type, action and resource
\* into the log by the time it is answered.
C7_RequestAudited ==
    [][(/\ req_id' # req_id /\ audit_enabled
        /\ resp'.endpoint \in AuditedEndpoints
        /\ resp'.status = 200 /\ ~resp'.audit_failed)
          => \E r \in audit_log' \ audit_log :
                LET e == ExpectedEvent(resp'.endpoint) IN
                /\ r.event_type = e.event_type
                /\ r.action = e.action
                /\ r.resource = e.resource]_vars

-----------------------------------------------------------------------------
(* C8 *)

\* C8: a request during which an audit write fails is answered with the
\* status and body it would have been answered with had the writes succeeded.
C8_AuditFailureHidden ==
    [][(req_id' # req_id /\ resp'.audit_failed)
          => LET h == Handle(resp'.endpoint, resp'.sql, resp'.arg, {}) IN
             /\ resp'.status = h.status
             /\ resp'.detail = h.detail
             /\ resp'.rows = h.rows]_vars

-----------------------------------------------------------------------------
(* C9 *)

\* C9: after an update of a factor's weight succeeded, the factor reads with
\* that weight from the live KnowledgeManager and from a KnowledgeManager
\* newly constructed on the same overlay file and template.
C9_UpdateVisible ==
    \A n \in FactorNames :
        updated[n].set
            => /\ IndexOf(km, n) # 0
               /\ WeightOf(km, n) = updated[n].weight
               /\ LET fresh == LoadManager(TemplateFactors, overlay) IN
                  /\ IndexOf(fresh, n) # 0
                  /\ WeightOf(fresh, n) = updated[n].weight

\* a template factor was given a weight other than the template's, and a
\* factor of the overlay was updated too
C9_Witness ==
    /\ updated["has_x"].set /\ updated["has_x"].weight # TemplateFactors[1].weight
    /\ updated["margin"].set

-----------------------------------------------------------------------------
(* C10 *)

\* C10: the percentage of every scored row lies in [0, 100]; it is 0 when
\* every factor fails and 100 when every factor passes.
C10_PercentageRange ==
    (scored.valid /\ ~scored.raised)
        => LET p == scored.percentage IN
           /\ 0 <= p.num /\ p.num <= 100 * p.den
           /\ scored.passed = {} => p.num = 0
           /\ scored.passed = scored.factors => p.num = 100 * p.den

-----------------------------------------------------------------------------
(* C11 *)

\* the factors of the manager whose calculation reads "a / b > v"
RatioFactors(factors) ==
    {i \in DOMAIN factors :
        LET c == factors[i].calculation IN
        Len(c) = 5 /\ c[2] = "/" /\ c[4] = ">" /\ IsNumber(c[5])}

\* the row holds numbers in both columns, b is not zero and a / b > v
RatioExceeds(calc, record) ==
    /\ calc[1] \in DOMAIN record /\ calc[3] \in DOMAIN record
    /\ ~record[calc[1]].null /\ ~record[calc[3]].null
    /\ LET n == record[calc[1]].v
           d == record[calc[3]].v
           t == NumberOf(calc[5])
       IN (d > 0 /\ n > t * d) \/ (d < 0 /\ n < t * d)

\* C11: a factor "a / b > v" scores its full weight for a row whose columns a
\* and b are numbers with b non-zero and a / b above v, and scores zero for
\* a row whose ratio does not exceed v.
C11_RatioScored ==
    (scored.valid /\ ~scored.raised)
        => \A i \in RatioFactors(km) :
              (km[i].name \in scored.passed)
                  <=> RatioExceeds(km[i].calculation, scored.record)

-----------------------------------------------------------------------------
(* C12 *)

\* C12: every table of the relational store is named by a name that
\* validate_table_name accepts, and so is the name an ingestion returns.
C12_StoredNamesValid ==
    /\ \A n \in DOMAIN store : ValidateTableName(n) = Ok
    /\ (ingest.op \in {"ingest_csv", "upload_csv"} /\ ingest.error = Ok)
          => ValidateTableName(ingest.table_name) = Ok

-----------------------------------------------------------------------------
(* C13 *)

\* C13: between operations the vector collections are exactly the tables of
\* the relational store.
C13_CollectionIffTable == collections = DOMAIN store

-----------------------------------------------------------------------------
(* C14 *)

\* a column name made canonical: lowercased, every character that is no
\* letter or digit replaced by "_", the underscores at both ends stripped,
\* a placeholder for what is left empty
Canonicalize(name) ==
    LET clean == StripUnderscores(ReplaceInvalid(Lower(name)))
    IN IF clean = <<>> THEN <<"c", "o", "l", "u", "m", "n">> ELSE clean

-----------------------------------------------------------------------------
(* C15 *)

-----------------------------------------------------------------------------
(* C16 *)

\* an engine the question needed failed
SqlFailed(a) ==
    /\ a.classification.needs_sql
    /\ a.does.translate = "raises" \/ a.does.execute = "raises"
SemanticFailed(a) == a.classification.needs_semantic /\ a.does.search = "raises"

\* the context holds something an answer can be made of
Usable(context) ==
    context.sql_results = "rows" \/ context.similar_records \/ context.knowledge

\* C16: when the SQL step or the semantic search fails while a question is
\* answered, the context carries the error note, the steps after it run and a
\* response comes back; a request that fails has no usable context.
C16_EngineFailureContained ==
    answer.asked
        => /\ answer.does.schema = "ok"
                 => /\ SqlFailed(answer) => answer.context.sql_error
                    /\ SemanticFailed(answer) => answer.context.semantic_error
                    /\ answer.classification.needs_semantic
                          => "semantic" \in answer.context.ran
                    /\ answer.classification.needs_knowledge
                          => /\ "knowledge" \in answer.context.ran
                             /\ answer.context.knowledge
                    /\ ~answer.raised /\ answer.response.answer # "None"
                    /\ answer.response.similar_records
                          = answer.context.similar_records
           /\ answer.raised => ~Usable(answer.context)

\* the SQL step failed, the semantic search then found records and the
\* response carries them
C16_Witness ==
    /\ answer.asked /\ ~answer.raised
    /\ SqlFailed(answer) /\ answer.context.sql_error
    /\ answer.does.search = "found" /\ answer.response.similar_records

-----------------------------------------------------------------------------
(* C17 *)

\* the weight the factor of that name has, or -1 when there is none
WeightOrNone(factors, name) ==
    IF IndexOf(factors, name) # 0 THEN WeightOf(factors, name) ELSE 0 - 1

\* what the claim says of one proposal of the last call
ProposalHonoured(p) ==
    LET file == LoadManager(TemplateFactors, overlay)
        file_before == LoadManager(TemplateFactors, applied.before_overlay)
    IN /\ p.confidence < applied.min_confidence
             => /\ WeightOrNone(km, p.factor_name)
                      = WeightOrNone(applied.before_km, p.factor_name)
                /\ WeightOrNone(file, p.factor_name)
                      = WeightOrNone(file_before, p.factor_name)
                /\ applied.results[p.factor_name] = FALSE
       /\ (/\ p.confidence >= applied.min_confidence
           /\ p.category = Category
           /\ IndexOf(applied.before_km, p.factor_name) # 0)
             => /\ WeightOf(km, p.factor_name) = p.suggested_weight
                /\ WeightOf(file, p.factor_name) = p.suggested_weight
                /\ applied.results[p.factor_name] = TRUE

\* the list names no factor twice
DistinctFactors(adjustments) ==
    \A i, j \in DOMAIN adjustments :
        adjustments[i].factor_name = adjustments[j].factor_name => i = j

-----------------------------------------------------------------------------
(* C18 *)

\* C18: sanitize_table_name returns for every string a name that
\* validate_table_name accepts; a reserved keyword is rewritten by it, and
\* the same keyword given raw to validate_table_name is rejected.
C18_SanitizedIsValid ==
    /\ naming.op = "sanitize"
          => /\ ValidateTableName(naming.result) = Ok
             /\ Lower(naming.name) \in RESERVED_KEYWORDS
                   => naming.result # naming.name
    /\ (naming.op = "validate" /\ Lower(naming.name) \in RESERVED_KEYWORDS)
          => naming.error # Ok

-----------------------------------------------------------------------------
(* C19 *)

\* C19: every statement that reaches sqlite, through SQLEngine.execute in
\* either mode or through SaleScorer.score_query, is a single comment-free
\* SELECT statement.
C19_EveryPathValidated == last_exec.ran => SafeShape(last_exec.sql)

-----------------------------------------------------------------------------
(* C20 *)

\* C20: the statement an operation builds around a table name holds the
\* name as quote_identifier returns it.
C20_NamesQuoted ==
    /\ (ingest.op = "delete_table" /\ ingest.statement # <<>>)
          => ingest.statement = DropTable \o QuoteIdentifier(ingest.name)
    /\ ingest.op = "score_table"
          => ingest.statement = SelectFrom \o QuoteIdentifier(ingest.name)

-----------------------------------------------------------------------------
(* C21 *)

\* C21: no factor of the live KnowledgeManager, and no factor a newly
\* constructed KnowledgeManager loads from the overlay file, has a weight
\* below zero.
C21_WeightNonNegative ==
    /\ \A i \in DOMAIN km : km[i].weight >= 0
    /\ LET fresh == LoadManager(TemplateFactors, overlay) IN
       \A i \in DOMAIN fresh : fresh[i].weight >= 0

-----------------------------------------------------------------------------
(* C22 *)

\* name and calculation of every factor of a list
NamedCalculations(factors) ==
    {<<factors[i].name, factors[i].calculation>> : i \in DOMAIN factors}

\* C22: the factors a KnowledgeManager holds after loading the overlay file
\* have exactly the names and the calculations of the template's factors.
C22_OverlayKeepsTemplate ==
    /\ NamedCalculations(km) = NamedCalculations(TemplateFactors)
    /\ NamedCalculations(LoadManager(TemplateFactors, overlay))
         = NamedCalculations(TemplateFactors)

-----------------------------------------------------------------------------
(* C23 *)

\* C23: scoring a row never raises, whatever the calculation of the factor;
\* and a factor "a / b > v" does not pass on a row whose column b is 0.
C23_EvaluationNeverRaises ==
    scored.valid
        => /\ ~scored.raised
           /\ \A i \in RatioFactors(km) :
                 LET b == km[i].calculation[3] IN
                 (b \in DOMAIN scored.record /\ ~scored.record[b].null
                    /\ scored.record[b].v = 0)
                     => km[i].name \notin scored.passed

-----------------------------------------------------------------------------
(* C24 *)

\* the feedback rows of the last `days` days
InWindow(rows, now, days) == {r \in rows : r.timestamp >= now - days * TicksPerDay}

\* the scoring ratings of the pair within the window
WindowRatings(category, factor) ==
    RatingsOf({r \in InWindow(feedback, clock, report.days) :
                 r.feedback_type = "scoring"}, category, factor)

\* floor(current * (1 - 0.5 * negative / n)) for a weight that is not negative
FlooredWeight(current, negative, n) == (current * (2 * n - negative)) \div (2 * n)

\* C24: when the last N days hold at least 10 feedback entries, the report
\* proposes for a (category, factor) pair exactly when the pair has at least
\* 3 scoring ratings in the window and more than 30% of them negative; the
\* proposal carries floor(current * (1 - 0.5 * rate)) and min(ratings/20, 1).
C24_ProposalsFromWindow ==
    (report.made
       /\ Cardinality(InWindow(feedback, clock, report.days)) >= MIN_FEEDBACK_FOR_ANALYSIS)
        => \A f \in FactorNames :
              LET ratings == WindowRatings(Category, f)
                  n == Cardinality(ratings)
                  negative == Cardinality({r \in ratings : r.rating < 0})
                  proposals == {a \in report.weight_adjustments :
                                  a.category = Category /\ a.factor_name = f}
              IN IF n >= 3 /\ 10 * negative > 3 * n
                 THEN \E a \in proposals :
                         /\ a.suggested_weight
                              = FlooredWeight(CurrentWeight(km, Category, f), negative, n)
                         /\ a.confidence = IF n < 20 THEN n ELSE 20
                 ELSE proposals = {}

-----------------------------------------------------------------------------
(* C25 *)

\* query type and the three flags of a ClassificationResult
Routing(c) == <<c.query_type, c.needs_sql, c.needs_semantic, c.needs_knowledge>>

\* C25: when the call of Brain raises, classify returns for the question the
\* query type and the flags that classify_simple returns for it.
C25_FallbackIsRuleBased ==
    (classified.asked /\ classified.reply.kind = "raises")
        => Routing(classified.result) = Routing(ClassifySimple(classified.question))

-----------------------------------------------------------------------------
(* C26 *)

\* C26: at most one request is inside a write of the overlay file at a time;
\* and once both updates were answered with 200, a KnowledgeManager newly
\* constructed on the file reads both factors with the weights requested.
C26_NoLostUpdate ==
    /\ Cardinality({p \in DOMAIN requests : requests[p].pc = "writing"}) <= 1
    /\ (\A p \in DOMAIN requests : requests[p].pc = "done" /\ requests[p].status = 200)
         => LET fresh == LoadManager(TemplateFactors, overlay) IN
            \A p \in DOMAIN requests :
                /\ IndexOf(fresh, requests[p].factor_name) # 0
                /\ WeightOf(fresh, requests[p].factor_name) = requests[p].weight

-----------------------------------------------------------------------------
(* C27 *)

\* C27: a query made while table T, which existed, is ingested again sees
\* either the table as it was before the ingest or the table as the ingest
\* leaves it: never no table, a table without rows or a mixture.
C27_QuerySeesOldOrNew ==
    (replace.queried /\ replace.during /\ replace.old.exists)
        => replace.seen \in {replace.old, replace.new}

-----------------------------------------------------------------------------
(* C28 *)

\* C28: however often the batch was embedded, in one process or in several,
\* the collection holds the entries the first embedding left, one for each
\* record of the batch.
C28_UpsertIdempotent ==
    vectors.count >= 1
        => /\ vectors.entries = vectors.first
           /\ Cardinality(DOMAIN vectors.entries) = Cardinality(vectors.batch)

-----------------------------------------------------------------------------
(* C29 *)

\* the rows of the table whose days_on_lot lies in lo..hi
RowsBetween(rows, lo, hi) ==
    SumCounts(rows.days, {v \in AgingValues : lo <= v /\ v <= hi})

\* C29: for an analyzed table with rows, a high-priority risk is among the
\* insights whenever more than 10% of the rows are over 90 days, a
\* medium-priority risk whenever more than 15% are at 61 to 90 days, and a
\* low-priority opportunity whenever more than 70% are at 30 days or less.
C29_AgingInsights ==
    aging.made
        => LET total == CountAll(aging.rows) IN
           /\ 10 * RowsBetween(aging.rows, 91, 1000) > total
                 => <<"risk", "high">> \in aging.insights
           /\ 100 * RowsBetween(aging.rows, 61, 90) > 15 * total
                 => <<"risk", "medium">> \in aging.insights
           /\ 10 * RowsBetween(aging.rows, 0, 30) > 7 * total
                 => <<"opportunity", "low">> \in aging.insights

-----------------------------------------------------------------------------
(* C30 *)

\* the instant, in ticks of UTC, that the stored timestamp text stands for; a
\* text without offset is local time, and the server's local time is UTC
InstantOf(text) == LET dt == FromIso(text) IN dt.wall - dt.off

\* C30: purge_old_logs(days) deletes every event whose instant lies before
\* midnight UTC of the day `days` days ago, keeps every event that is at
\* most `days` days old, and returns the number of events it deleted.
C30_PurgeExact ==
    purged.called
        => LET midnight == ((purged.now \div TicksPerDay) - purged.days) * TicksPerDay
           IN /\ \A r \in purged.before :
                    InstantOf(r.timestamp) < midnight => r \notin audit_log
              /\ \A r \in purged.before :
                    InstantOf(r.timestamp) >= purged.now - purged.days * TicksPerDay
                        => r \in audit_log
              /\ purged.count = Cardinality(purged.before \ audit_log)
====
